---- MODULE Spec2Model ----
(***************************************************************************)
(* Department allocation and task routing of the NigraniX backend:         *)
(* issue intake (validation, keyword classification, nearest-department    *)
(* fallback), the issue status update and the staff task listing, as       *)
(* implemented by IssueController, IssueService and IssueRepository.       *)
(*                                                                         *)
(* Text is modelled character by character: a string is a sequence of      *)
(* one-character strings, so that normalisation, the whole-word regular    *)
(* expression and String.prototype.includes are computed, not assumed.     *)
(***************************************************************************)
EXTENDS Integers, Sequences, FiniteSets, TLC

(***************************************************************************)
(* Characters and strings                                                  *)
(***************************************************************************)
LowerChars == <<"a", "b", "c", "d", "e", "f", "g", "h", "i", "j", "k", "l", "m", "n", "o", "p", "q", "r", "s", "t", "u", "v", "w", "x", "y", "z">>

UpperChars == <<"A", "B", "C", "D", "E", "F", "G", "H", "I", "J", "K", "L", "M", "N", "O", "P", "Q", "R", "S", "T", "U", "V", "W", "X", "Y", "Z">>

DigitChars == <<"0", "1", "2", "3", "4", "5", "6", "7", "8", "9">>

\* the JavaScript null / undefined text value
Null == <<"<null>">>

\* JavaScript truthiness of a string-or-null value
Truthy(s) == s # Null /\ s # <<>>

\* (s || '')
OrEmpty(s) == IF Truthy(s) THEN s ELSE <<>>

InSeq(c, s) == \E i \in 1..Len(s) : s[i] = c

SeqRange(s) == {s[i] : i \in 1..Len(s)}

LowerSet == SeqRange(LowerChars)

UpperSet == SeqRange(UpperChars)

DigitSet == SeqRange(DigitChars)

\* characters outside ASCII: U+212A KELVIN SIGN, U+0130 LATIN CAPITAL LETTER
\* I WITH DOT ABOVE and U+0307 COMBINING DOT ABOVE
KelvinSign == "<U+212A>"

DottedI == "<U+0130>"

CombiningDot == "<U+0307>"

\* String.prototype.toLowerCase on one character that maps to one character
toLowerCase(c) ==
  IF c \in UpperSet
    THEN LowerChars[CHOOSE i \in 1..Len(UpperChars) : UpperChars[i] = c]
  ELSE IF c = KelvinSign THEN "k"
  ELSE c

\* String.prototype.toLowerCase on a text: U+0130 becomes the two characters
\* i and U+0307, every other character maps to one character
RECURSIVE toLowerCaseFrom(_, _)
toLowerCaseFrom(s, i) ==
  IF i > Len(s) THEN <<>>
  ELSE (IF s[i] = DottedI THEN <<"i", CombiningDot>> ELSE <<toLowerCase(s[i])>>)
         \o toLowerCaseFrom(s, i + 1)

toLowerCaseText(s) ==
  IF \A i \in 1..Len(s) : s[i] # DottedI
    THEN [i \in 1..Len(s) |-> toLowerCase(s[i])]
    ELSE toLowerCaseFrom(s, 1)

\* the regular expression class \s
IsSpace(c) == c \in {" ", "\t", "\n"}

\* the regular expression class \w
IsWordChar(c) == c \in LowerSet \/ c \in UpperSet \/ c \in DigitSet \/ c = "_"

\* the class [a-z0-9\s]
IsKept(c) == c \in LowerSet \/ c \in DigitSet \/ IsSpace(c)

\* .replace(/\s+/g, ' ') : every maximal run of white space becomes one space
CollapseSpaces(s) ==
  LET keep == {i \in 1..Len(s) : ~IsSpace(s[i]) \/ i = 1 \/ ~IsSpace(s[i - 1])}
      kept == SelectSeq([i \in 1..Len(s) |-> [c |-> s[i], at |-> i]],
                        LAMBDA x : x.at \in keep)
  IN  [k \in 1..Len(kept) |-> IF IsSpace(kept[k].c) THEN " " ELSE kept[k].c]

\* String.prototype.trim
RECURSIVE TrimLeft(_)
TrimLeft(s) == IF s # <<>> /\ IsSpace(Head(s)) THEN TrimLeft(Tail(s)) ELSE s

RECURSIVE TrimRight(_)
TrimRight(s) ==
  IF s # <<>> /\ IsSpace(s[Len(s)]) THEN TrimRight(SubSeq(s, 1, Len(s) - 1)) ELSE s

\* String.prototype.trimStart
trimStart(s) == TrimLeft(s)

trim(s) == TrimRight(TrimLeft(s))

\* normalizeText with trim applied before the replacements
normalizeTextTrimFirst(text) ==
  LET lowered  == toLowerCaseText(trim(OrEmpty(text)))
      replaced == [i \in 1..Len(lowered) |-> IF IsKept(lowered[i]) THEN lowered[i] ELSE " "]
  IN  CollapseSpaces(replaced)

normalizeText(text) ==
  LET lowered  == toLowerCaseText(OrEmpty(text))
      replaced == [i \in 1..Len(lowered) |-> IF IsKept(lowered[i]) THEN lowered[i] ELSE " "]
  IN  trim(CollapseSpaces(replaced))

\* String.prototype.includes
includes(s, sub) ==
  \E i \in 1..(Len(s) - Len(sub) + 1) : SubSeq(s, i, i + Len(sub) - 1) = sub

\* a weight of 1 for every keyword
SplitLengthOne(word) == 1

\* word.split(' ').length
SplitLength(word) == Cardinality({i \in 1..Len(word) : word[i] = " "}) + 1

(***************************************************************************)
(* new RegExp(`\\b${word.replace(/\s+/g, '\\s+')}\\b`, 'i').test(text)      *)
(***************************************************************************)
\* a pattern without the \b assertions: every position passes
WordBoundaryAnywhere(text, p) == TRUE

\* \b holds between text[p-1] and text[p]
WordBoundary(text, p) ==
  LET before == p > 1 /\ p - 1 <= Len(text) /\ IsWordChar(text[p - 1])
      after  == p >= 1 /\ p <= Len(text) /\ IsWordChar(text[p])
  IN  before # after

\* positions just after a match of word[k..] that starts at text[i]; a run of
\* white space in the keyword is the pattern \s+, any other character is a
\* case-insensitive literal
RECURSIVE MatchEnds(_, _, _, _)
MatchEnds(word, k, text, i) ==
  IF k > Len(word) THEN {i}
  ELSE IF IsSpace(word[k])
    THEN IF k < Len(word) /\ IsSpace(word[k + 1])
           THEN MatchEnds(word, k + 1, text, i)
           ELSE UNION { MatchEnds(word, k + 1, text, j) :
                          j \in {j \in (i + 1)..(Len(text) + 1) :
                                   \A m \in i..(j - 1) : IsSpace(text[m])} }
    ELSE IF i <= Len(text) /\ toLowerCase(text[i]) = toLowerCase(word[k])
           THEN MatchEnds(word, k + 1, text, i + 1)
           ELSE {}

regexTest(word, text) ==
  \E i \in 1..(Len(text) + 1) :
     /\ WordBoundary(text, i)
     /\ \E e \in MatchEnds(word, 1, text, i) : WordBoundary(text, e)

(***************************************************************************)
(* Texts used as inputs                                                    *)
(***************************************************************************)
TxtPothole == <<"T", "h", "e", "r", "e", " ", "i", "s", " ", "a", " ", "p", "o", "t", "h", "o", "l", "e", " ", "o", "n", " ", "t", "h", "e", " ", "m", "a", "i", "n", " ", "r", "o", "a", "d">>

TxtCat == <<"m", "y", " ", "c", "a", "t", " ", "i", "s", " ", "s", "t", "u", "c", "k", " ", "i", "n", " ", "a", " ", "t", "r", "e", "e">>

TxtBlank == <<" ", "\t", " ">>

TxtWater == <<"W", "a", "t", "e", "r">>

TxtDone == <<"D", "O", "N", "E">>

TxtResolvedLower == <<"r", "e", "s", "o", "l", "v", "e", "d">>

TxtAssignedMixed == <<"A", "s", "s", "i", "g", "n", "e", "d">>

TxtInProgressHyphen == <<"i", "n", "-", "p", "r", "o", "g", "r", "e", "s", "s">>

TxtClosed == <<"C", "L", "O", "S", "E", "D">>

NamePWD == <<"P", "W", "D">>

NamePwdLower == <<"p", "w", "d">>

NameWater == <<"W", "a", "t", "e", "r">>

NameElectricity == <<"E", "l", "e", "c", "t", "r", "i", "c", "i", "t", "y">>

NameRoads == <<"R", "o", "a", "d", "s">>

NamePwdBang == <<"p", "w", "d", "!">>

NameSpacePwd == <<" ", "P", "W", "D">>

WordWater == <<"w", "a", "t", "e", "r">>

WordNo == <<"n", "o">>

WordLight == <<"L", "i", "g", "h", "t", "!">>

WordStreet == <<"s", "t", "r", "e", "e", "t">>

WordGarbage == <<"G", "A", "R", "B", "A", "G", "E">>

WordTape == <<"t", "a", "p", "e">>

WordRoads == <<"r", "o", "a", "d", "s">>

TypeRoad == <<"R", "o", "a", "d">>

\* the limit of description.length
MaxDescription == 500

\* descriptions of exactly the longest accepted length and one more
TxtLongest == [i \in 1..MaxDescription |-> "x"]

TxtTooLong == [i \in 1..(MaxDescription + 1) |-> "x"]

(***************************************************************************)
(* Keyword classifier                                                      *)
(***************************************************************************)
getDepartmentKeywords ==
  << 
     [deptName |-> <<"S", "a", "n", "i", "t", "a", "t", "i", "o", "n">>,
      keywords |-> <<
        <<"g", "a", "r", "b", "a", "g", "e">>,
        <<"t", "r", "a", "s", "h">>,
        <<"w", "a", "s", "t", "e">>,
        <<"d", "u", "s", "t", "b", "i", "n">>,
        <<"l", "i", "t", "t", "e", "r">>,
        <<"c", "l", "e", "a", "n", "i", "n", "g">>,
        <<"s", "w", "e", "e", "p">>,
        <<"d", "u", "m", "p">>,
        <<"o", "v", "e", "r", "f", "l", "o", "w">>,
        <<"s", "e", "w", "a", "g", "e">>,
        <<"d", "r", "a", "i", "n">>,
        <<"d", "r", "a", "i", "n", "a", "g", "e">> >>],
     [deptName |-> <<"W", "a", "t", "e", "r">>,
      keywords |-> <<
        <<"w", "a", "t", "e", "r">>,
        <<"l", "e", "a", "k">>,
        <<"p", "i", "p", "e", "l", "i", "n", "e">>,
        <<"t", "a", "p">>,
        <<"n", "o", " ", "w", "a", "t", "e", "r">>,
        <<"l", "o", "w", " ", "p", "r", "e", "s", "s", "u", "r", "e">>,
        <<"s", "e", "w", "e", "r">> >>],
     [deptName |-> <<"E", "l", "e", "c", "t", "r", "i", "c", "i", "t", "y">>,
      keywords |-> <<
        <<"e", "l", "e", "c", "t", "r", "i", "c">>,
        <<"s", "t", "r", "e", "e", "t", "l", "i", "g", "h", "t">>,
        <<"s", "t", "r", "e", "e", "t", " ", "l", "i", "g", "h", "t">>,
        <<"l", "i", "g", "h", "t">>,
        <<"p", "o", "w", "e", "r">>,
        <<"o", "u", "t", "a", "g", "e">>,
        <<"t", "r", "a", "n", "s", "f", "o", "r", "m", "e", "r">>,
        <<"w", "i", "r", "e">>,
        <<"p", "o", "l", "e">> >>],
     [deptName |-> <<"P", "W", "D">>,
      keywords |-> <<
        <<"r", "o", "a", "d">>,
        <<"p", "o", "t", "h", "o", "l", "e">>,
        <<"s", "t", "r", "e", "e", "t">>,
        <<"f", "o", "o", "t", "p", "a", "t", "h">>,
        <<"s", "i", "d", "e", "w", "a", "l", "k">>,
        <<"z", "e", "b", "r", "a">>,
        <<"s", "p", "e", "e", "d", " ", "b", "r", "e", "a", "k", "e", "r">>,
        <<"t", "r", "a", "f", "f", "i", "c">>,
        <<"s", "i", "g", "n", "a", "g", "e">>,
        <<"p", "a", "v", "e", "m", "e", "n", "t">>,
        <<"a", "s", "p", "h", "a", "l", "t">>,
        <<"h", "i", "g", "h", "w", "a", "y">> >>]
  >>

\* the "score > bestScore" test that replaces the running best (line 69)
ScoreBeatsTies(score, bestScore) == score >= bestScore

ScoreBeats(score, bestScore) == score > bestScore

\* the inner loop over group.keywords (lines 54-67), from keyword k on
RECURSIVE GroupScoreFrom(_, _, _)
GroupScoreFrom(keywords, k, text) ==
  IF k > Len(keywords) THEN 0
  ELSE LET word == normalizeText(keywords[k])
       IN  (IF regexTest(word, text) THEN SplitLength(word) ELSE 0)
             + GroupScoreFrom(keywords, k + 1, text)

GroupScore(group, text) == GroupScoreFrom(group.keywords, 1, text)

\* the outer loop over keywordGroups (lines 53-73), from group g on, carrying
\* bestDept and bestScore
RECURSIVE ScanGroups(_, _, _, _)
ScanGroups(groups, g, text, best) ==
  IF g > Len(groups) THEN best
  ELSE LET score == GroupScore(groups[g], text)
       IN  ScanGroups(groups, g + 1, text,
             IF ScoreBeats(score, best.bestScore)
               THEN [bestDept |-> groups[g].deptName, bestScore |-> score]
               ELSE best)

\* the text that mapKeywordsToDepartmentId classifies (line 43)
KeywordText(description, issueType) ==
  normalizeText(OrEmpty(issueType) \o <<" ">> \o OrEmpty(description))

\* STEP 1 of mapKeywordsToDepartmentId (lines 43-80): the selected
\* DepartmentName, or Null
SelectBestDept(description, issueType) ==
  LET text == KeywordText(description, issueType)
  IN  IF text = <<>> THEN Null
      ELSE ScanGroups(getDepartmentKeywords, 1, text,
                      [bestDept |-> Null, bestScore |-> 0]).bestDept

\* the texts of the request bodies that are submitted again and again
RepeatedTexts == {TxtPothole, TxtCat, TxtLongest} \X {Null, TxtWater}

\* STEP 1 evaluated once for each of them
BestDeptOfRepeated == { <<x, SelectBestDept(x[1], x[2])>> : x \in RepeatedTexts }

\* STEP 1, looked up where it was evaluated before
BestDept(description, issueType) ==
  IF <<description, issueType>> \in RepeatedTexts
    THEN (CHOOSE p \in BestDeptOfRepeated : p[1] = <<description, issueType>>)[2]
    ELSE SelectBestDept(description, issueType)

(***************************************************************************)
(* Numbers.  A JavaScript value that should be a number is a record: a     *)
(* finite number carries its value (whole degrees), NaN, the infinities    *)
(* and a missing value (undefined) carry 0.                                *)
(***************************************************************************)
Num(x) == [t |-> "num", v |-> x]

NaN == [t |-> "nan", v |-> 0]

Infinity == [t |-> "inf", v |-> 0]

Undefined == [t |-> "undefined", v |-> 0]

\* the value null where a number is expected
JsNull == [t |-> "null", v |-> 0]

NumberIsFiniteAlways(x) == TRUE

NumberIsFinite(x) == x.t = "num"

\* a departmentId that is null or undefined
NullId == -1

\* JavaScript truthiness of a departmentId (a number or null)
IdTruthy(id) == id # NullId /\ id # 0

(***************************************************************************)
(* Great-circle distance.  Coordinates are whole degrees on the grid       *)
(* latitude {0, 60}, longitude {0, 60, 120}, where the haversine term is   *)
(* an exact multiple of 1/16 and the distance is a table look-up; the      *)
(* distance is kept in metres (the code's kilometres times 1000).  The     *)
(* distance on its own is also taken on the wider grid latitude            *)
(* {-60, 0, 60}, longitude {-120, -60, 0, 60, 120, 180}.                   *)
(***************************************************************************)
Lats == {0, 60}

Lons == {0, 60, 120}

Abs(x) == IF x < 0 THEN -x ELSE x

\* 16 * sin(d/2)^2 for a difference of d degrees
Hav16(d) == CASE Abs(d) = 0   -> 0
              [] Abs(d) = 60  -> 4
              [] Abs(d) = 120 -> 12
              [] Abs(d) = 180 -> 16
              [] Abs(d) = 240 -> 12
              [] Abs(d) = 300 -> 4

\* 2 * cos(lat)
Cos2(lat) == CASE lat = 0 -> 2 [] Abs(lat) = 60 -> 1

\* 1000 * 6371 * 2 * atan2(sqrt(a), sqrt(1 - a)) for a = n/16, to the metre
ArcMeters ==
  [n \in 0..16 |->
     CASE n = 0  -> 0        [] n = 1  -> 3219652  [] n = 2  -> 4604540
       [] n = 3  -> 5706280  [] n = 4  -> 6671696  [] n = 5  -> 7558552
       [] n = 6  -> 8397717  [] n = 7  -> 9209080  [] n = 8  -> 10007543
       [] n = 9  -> 10806007 [] n = 10 -> 11617369 [] n = 11 -> 12456535
       [] n = 12 -> 13343391 [] n = 13 -> 14308806 [] n = 14 -> 15410547
       [] n = 15 -> 16795435 [] n = 16 -> 20015087]

\* calculateDistance with dLat taken as the sum of the latitudes
calculateDistanceSumLat(lat1, lon1, lat2, lon2) ==
  LET dLat == lat2 + lat1
      dLon == lon2 - lon1
      a16  == Hav16(dLat) + (Cos2(lat1) * Cos2(lat2) * Hav16(dLon)) \div 4
  IN  ArcMeters[a16]

\* calculateDistance with the cosine of the first latitude taken twice
calculateDistanceOneCos(lat1, lon1, lat2, lon2) ==
  LET dLat == lat2 - lat1
      dLon == lon2 - lon1
      a16  == Hav16(dLat) + (Cos2(lat1) * Cos2(lat1) * Hav16(dLon)) \div 4
  IN  ArcMeters[a16]

calculateDistance(lat1, lon1, lat2, lon2) ==
  LET dLat == lat2 - lat1
      dLon == lon2 - lon1
      a16  == Hav16(dLat) + (Cos2(lat1) * Cos2(lat2) * Hav16(dLon)) \div 4
  IN  ArcMeters[a16]

(***************************************************************************)
(* Sorting                                                                 *)
(***************************************************************************)
\* where a sort puts x among the already sorted rows: before the rows of an
\* equal key
InsertBeforeEquals(sorted, x) ==
  LET n == Cardinality({i \in 1..Len(sorted) : sorted[i].key < x.key})
  IN  SubSeq(sorted, 1, n) \o <<x>> \o SubSeq(sorted, n + 1, Len(sorted))

\* where a stable sort puts x among the already sorted rows: after every row
\* whose key is not greater
InsertAfterEquals(sorted, x) ==
  LET n == Cardinality({i \in 1..Len(sorted) : sorted[i].key <= x.key})
  IN  SubSeq(sorted, 1, n) \o <<x>> \o SubSeq(sorted, n + 1, Len(sorted))

\* Array.prototype.sort((a, b) => a.key - b.key): ascending and stable
RECURSIVE StableSortFrom(_, _, _)
StableSortFrom(s, i, sorted) ==
  IF i > Len(s) THEN sorted
  ELSE StableSortFrom(s, i + 1, InsertAfterEquals(sorted, s[i]))

StableSort(s) == StableSortFrom(s, 1, <<>>)

(***************************************************************************)
(* DepartmentRepository                                                    *)
(***************************************************************************)
\* the collating position of a character: space, digits, letters without
\* regard to case
CharRank(c) ==
  LET l == toLowerCase(c)
  IN  IF l \in DigitSet
        THEN 1 + (CHOOSE i \in 1..Len(DigitChars) : DigitChars[i] = l)
      ELSE IF l \in LowerSet
        THEN 11 + (CHOOSE i \in 1..Len(LowerChars) : LowerChars[i] = l)
      ELSE 1

\* a sorts strictly before b
RECURSIVE StrLess(_, _)
StrLess(a, b) ==
  IF b = <<>> THEN FALSE
  ELSE IF a = <<>> THEN TRUE
  ELSE IF CharRank(Head(a)) # CharRank(Head(b)) THEN CharRank(Head(a)) < CharRank(Head(b))
  ELSE StrLess(Tail(a), Tail(b))

\* SELECT ... FROM Departments ORDER BY DepartmentName
getAll(table) ==
  LET keyed == [i \in 1..Len(table) |->
                  [row |-> table[i],
                   key |-> Cardinality({j \in 1..Len(table) :
                              StrLess(table[j].DepartmentName, table[i].DepartmentName)})]]
      sorted == StableSort(keyed)
  IN  [i \in 1..Len(sorted) |-> sorted[i].row]

(***************************************************************************)
(* Messages and literals                                                   *)
(***************************************************************************)
MsgDescriptionRequired == <<"D", "e", "s", "c", "r", "i", "p", "t", "i", "o", "n", " ", "i", "s", " ", "r", "e", "q", "u", "i", "r", "e", "d">>

MsgDescriptionMax == <<"D", "e", "s", "c", "r", "i", "p", "t", "i", "o", "n", " ", "m", "a", "x", " ", "5", "0", "0", " ", "c", "h", "a", "r", "s">>

MsgLatitudeRequired == <<"L", "a", "t", "i", "t", "u", "d", "e", " ", "i", "s", " ", "r", "e", "q", "u", "i", "r", "e", "d">>

MsgLongitudeRequired == <<"L", "o", "n", "g", "i", "t", "u", "d", "e", " ", "i", "s", " ", "r", "e", "q", "u", "i", "r", "e", "d">>

MsgNoDepartments == <<"N", "o", " ", "d", "e", "p", "a", "r", "t", "m", "e", "n", "t", "s", " ", "a", "v", "a", "i", "l", "a", "b", "l", "e">>

MsgInvalidStatus == <<"I", "n", "v", "a", "l", "i", "d", " ", "s", "t", "a", "t", "u", "s">>

MsgStatusRequired == <<"S", "t", "a", "t", "u", "s", " ", "i", "s", " ", "r", "e", "q", "u", "i", "r", "e", "d">>

\* the TypeError of row.IssueId when the UPDATE returned no row
MsgRowUndefined == <<"C", "a", "n", "n", "o", "t", " ", "r", "e", "a", "d", " ", "p", "r", "o", "p", "e", "r", "t", "i", "e", "s", " ", "o", "f", " ", "u", "n", "d", "e", "f", "i", "n", "e", "d">>

MsgInvalidAttendance == <<"I", "n", "v", "a", "l", "i", "d", " ", "a", "t", "t", "e", "n", "d", "a", "n", "c", "e", " ", "p", "a", "y", "l", "o", "a", "d">>

MsgIssueNotFound == <<"I", "s", "s", "u", "e", " ", "n", "o", "t", " ", "f", "o", "u", "n", "d">>

MsgLatLonRequired == <<"L", "a", "t", "i", "t", "u", "d", "e", " ", "a", "n", "d", " ", "l", "o", "n", "g", "i", "t", "u", "d", "e", " ", "a", "r", "e", " ", "r", "e", "q", "u", "i", "r", "e", "d">>

SubNotFound == <<"n", "o", "t", " ", "f", "o", "u", "n", "d">>

SubRequired == <<"r", "e", "q", "u", "i", "r", "e", "d">>

SubInvalid == <<"I", "n", "v", "a", "l", "i", "d">>

SubInvalidStatus == <<"I", "n", "v", "a", "l", "i", "d", " ", "s", "t", "a", "t", "u", "s">>

REPORTED == <<"R", "E", "P", "O", "R", "T", "E", "D">>

ASSIGNED == <<"A", "S", "S", "I", "G", "N", "E", "D">>

IN_PROGRESS == <<"I", "N", "_", "P", "R", "O", "G", "R", "E", "S", "S">>

RESOLVED == <<"R", "E", "S", "O", "L", "V", "E", "D">>

StrategyKeywords == <<"k", "e", "y", "w", "o", "r", "d", "s">>

StrategyNearest == <<"n", "e", "a", "r", "e", "s", "t">>

\* no error was thrown
Ok == Null

(***************************************************************************)
(* IssueService: allocation                                                *)
(***************************************************************************)
\* mapKeywordsToDepartmentId: the DepartmentId (NullId for null) and the
\* collaborator calls made
\* lines 83 to 101: the Departments row whose normalized name is the
\* normalized bestDept, NullId when bestDept is null or no row matches
departmentOfNameLast(bestDept, departments) ==
  IF bestDept = Null
    THEN [id |-> NullId, calls |-> <<"mapKeywordsToDepartmentId">>]
  ELSE IF \A i \in 1..Len(departments) :
            normalizeText(departments[i].DepartmentName) # normalizeText(bestDept)
    THEN [id |-> NullId, calls |-> <<"mapKeywordsToDepartmentId", "departmentRepository.getAll">>]
  ELSE [id |-> departments[CHOOSE i \in 1..Len(departments) :
                   /\ normalizeText(departments[i].DepartmentName) = normalizeText(bestDept)
                   /\ \A j \in (i + 1)..Len(departments) :
                        normalizeText(departments[j].DepartmentName)
                          # normalizeText(bestDept)].DepartmentId,
        calls |-> <<"mapKeywordsToDepartmentId", "departmentRepository.getAll">>]

departmentOfName(bestDept, departments) ==
  IF bestDept = Null
    THEN [id |-> NullId, calls |-> <<"mapKeywordsToDepartmentId">>]
  ELSE IF \A i \in 1..Len(departments) :
            normalizeText(departments[i].DepartmentName) # normalizeText(bestDept)
    THEN [id |-> NullId, calls |-> <<"mapKeywordsToDepartmentId", "departmentRepository.getAll">>]
  ELSE [id |-> departments[CHOOSE i \in 1..Len(departments) :
                   /\ normalizeText(departments[i].DepartmentName) = normalizeText(bestDept)
                   /\ \A j \in 1..(i - 1) :
                        normalizeText(departments[j].DepartmentName)
                          # normalizeText(bestDept)].DepartmentId,
        calls |-> <<"mapKeywordsToDepartmentId", "departmentRepository.getAll">>]

mapKeywordsToDepartmentId(description, issueType, table) ==
  departmentOfName(BestDept(description, issueType), getAll(table))

\* the value of nearestDept when findNearestDepartment was not run
NoDepartment ==
  [DepartmentId |-> NullId, DepartmentName |-> Null, Latitude |-> 0, Longitude |-> 0,
   distance |-> 0]

\* departments.map(dept => ({...dept, distance})) followed by the sort
departmentsWithDistance(issueLatitude, issueLongitude, departments) ==
  LET keyed == [i \in 1..Len(departments) |->
                  [row |-> departments[i],
                   key |-> calculateDistance(issueLatitude, issueLongitude,
                                             departments[i].Latitude,
                                             departments[i].Longitude)]]
      sorted == StableSort(keyed)
  IN  [i \in 1..Len(sorted) |->
         [DepartmentId   |-> sorted[i].row.DepartmentId,
          DepartmentName |-> sorted[i].row.DepartmentName,
          Latitude       |-> sorted[i].row.Latitude,
          Longitude      |-> sorted[i].row.Longitude,
          distance       |-> sorted[i].key]]

findNearestDepartment(issueLatitude, issueLongitude, table) ==
  LET departments == getAll(table)
  IN  IF Len(departments) = 0
        THEN [error |-> MsgNoDepartments, dept |-> NoDepartment,
              calls |-> <<"findNearestDepartment", "departmentRepository.getAll">>]
        ELSE [error |-> Ok,
              dept  |-> departmentsWithDistance(issueLatitude, issueLongitude, departments)[1],
              calls |-> <<"findNearestDepartment", "departmentRepository.getAll",
                          "calculateDistance">>]

validate(issue) ==
  IF trim(OrEmpty(issue.description)) = <<>> THEN MsgDescriptionRequired
  ELSE IF Len(issue.description) > MaxDescription THEN MsgDescriptionMax
  ELSE IF ~NumberIsFinite(issue.latitude) THEN MsgLatitudeRequired
  ELSE IF ~NumberIsFinite(issue.longitude) THEN MsgLongitudeRequired
  ELSE Ok

\* IssueRepository.createIssue: the INSERT, with Status 'REPORTED', the
\* generated IssueId and the CreatedAt default
insertIssueNoStatus(issueData, issuesTable, now) ==
  [IssueId      |-> Len(issuesTable) + 1,
   CitizenId    |-> issueData.citizenId,
   DepartmentId |-> issueData.departmentId,
   IssueType    |-> IF Truthy(issueData.issueType) THEN issueData.issueType ELSE Null,
   Description  |-> issueData.description,
   Latitude     |-> issueData.latitude,
   Longitude    |-> issueData.longitude,
   Address      |-> IF Truthy(issueData.address) THEN issueData.address ELSE Null,
   Status       |-> Null,
   CreatedAt    |-> now]

insertIssue(issueData, issuesTable, now) ==
  [IssueId      |-> Len(issuesTable) + 1,
   CitizenId    |-> issueData.citizenId,
   DepartmentId |-> issueData.departmentId,
   IssueType    |-> IF Truthy(issueData.issueType) THEN issueData.issueType ELSE Null,
   Description  |-> issueData.description,
   Latitude     |-> issueData.latitude,
   Longitude    |-> issueData.longitude,
   Address      |-> IF Truthy(issueData.address) THEN issueData.address ELSE Null,
   Status       |-> REPORTED,
   CreatedAt    |-> now]

\* distance?.toFixed(2), in hundredths of a kilometre
toFixed2(meters) == (meters + 5) \div 10

\* the first test "!departmentId" (line 163): no department was provided
NotProvided(departmentId) == ~IdTruthy(departmentId)

\* the second test "!departmentId" (line 169): no department is resolved yet
NotResolvedAlways(departmentId) == TRUE

NotResolvedNever(departmentId) == FALSE

NotResolved(departmentId) == ~IdTruthy(departmentId)

\* a createIssue that throws msg after the calls made
createIssueFailed(msg, calls) ==
  [error |-> msg, inserted |-> FALSE, row |-> <<>>, nearestDept |-> NoDepartment,
   allocationStrategy |-> Null, calls |-> calls]

\* lines 163 to 167: the keyword allocation, run when no department is provided
allocateByKeywords(data, table) ==
  IF NotProvided(data.departmentId)
    THEN mapKeywordsToDepartmentId(data.description, data.issueType, table)
    ELSE [id |-> data.departmentId, calls |-> <<>>]

\* lines 169 to 174: the nearest-department fallback, run when the keyword
\* allocation left the department unresolved
allocateNearest(data, table, byKeywords) ==
  IF NotResolved(byKeywords.id)
    THEN findNearestDepartment(data.latitude.v, data.longitude.v, table)
    ELSE [error |-> Ok, dept |-> NoDepartment, calls |-> <<>>]

\* allocationStrategy after both allocation steps
strategyOf(data, byKeywords) ==
  IF NotProvided(data.departmentId) /\ IdTruthy(byKeywords.id) THEN StrategyKeywords
  ELSE IF NotResolved(byKeywords.id) THEN StrategyNearest
  ELSE Null

\* lines 176 to 195: the repository call and the result
createAllocated(data, issuesTable, now, byKeywords, nearest) ==
  IF nearest.error # Ok
    THEN createIssueFailed(nearest.error, <<"validate">> \o byKeywords.calls \o nearest.calls)
    ELSE [error |-> Ok, inserted |-> TRUE,
          row |-> insertIssue([citizenId    |-> data.citizenId,
                               departmentId |-> IF NotResolved(byKeywords.id)
                                                  THEN nearest.dept.DepartmentId
                                                  ELSE byKeywords.id,
                               issueType    |-> data.issueType,
                               description  |-> data.description,
                               latitude     |-> data.latitude.v,
                               longitude    |-> data.longitude.v,
                               address      |-> data.address],
                              issuesTable, now),
          nearestDept |-> nearest.dept,
          allocationStrategy |-> strategyOf(data, byKeywords),
          calls |-> <<"validate">> \o byKeywords.calls \o nearest.calls
                     \o <<"issueRepository.createIssue">>]

\* lines 163 to 195 once the keyword allocation is known
createResolved(data, table, issuesTable, now, byKeywords) ==
  createAllocated(data, issuesTable, now, byKeywords,
                  allocateNearest(data, table, byKeywords))

\* the body of createIssue after validate returned invalid
createValidated(data, table, issuesTable, now, invalid) ==
  IF invalid # Ok THEN createIssueFailed(invalid, <<"validate">>)
  ELSE createResolved(data, table, issuesTable, now, allocateByKeywords(data, table))

\* IssueService.createIssue: the error thrown (Ok when none), the row
\* inserted, the allocation outcome and the calls made, in order
createIssue(data, table, issuesTable, now) ==
  createValidated(data, table, issuesTable, now, validate(data))

\* the HTTP status the createIssue handler answers a thrown error with
createIssueErrorStatusClient(message) == 400

createIssueErrorStatus(message) ==
  IF includes(message, SubRequired) \/ includes(message, SubInvalid) THEN 400 ELSE 500

(***************************************************************************)
(* IssueService and IssueRepository: status update                         *)
(***************************************************************************)
allowed == <<REPORTED, ASSIGNED, IN_PROGRESS, RESOLVED>>

\* allowed.includes(status)
StatusAllowedAnyCase(status) ==
  \E i \in 1..Len(allowed) :
     [k \in 1..Len(status) |-> toLowerCase(status[k])]
       = [k \in 1..Len(allowed[i]) |-> toLowerCase(allowed[i][k])]

StatusAllowed(status) == InSeq(status, allowed)

\* UPDATE Issues SET Status = @status WHERE IssueId = @issueId
updateStatusForward(issuesTable, issueId, status) ==
  [i \in 1..Len(issuesTable) |->
     IF issuesTable[i].IssueId = issueId /\ issuesTable[i].Status # RESOLVED
       THEN [issuesTable[i] EXCEPT !.Status = status]
       ELSE issuesTable[i]]

updateStatusEveryRow(issuesTable, issueId, status) ==
  [i \in 1..Len(issuesTable) |-> [issuesTable[i] EXCEPT !.Status = status]]

updateStatus(issuesTable, issueId, status) ==
  [i \in 1..Len(issuesTable) |->
     IF issuesTable[i].IssueId = issueId
       THEN [issuesTable[i] EXCEPT !.Status = status]
       ELSE issuesTable[i]]

\* IssueService.updateIssueStatus: the error thrown (Ok when none), the
\* Issues table afterwards and the calls made
updateIssueStatus(issueId, status, issuesTable) ==
  LET found == \E i \in 1..Len(issuesTable) : issuesTable[i].IssueId = issueId
  IN  IF ~StatusAllowed(status)
        THEN [error |-> MsgInvalidStatus, table |-> issuesTable, calls |-> <<>>]
      ELSE IF ~found
        THEN [error |-> MsgRowUndefined, table |-> updateStatus(issuesTable, issueId, status),
              calls |-> <<"issueRepository.updateIssueStatus">>]
      ELSE [error |-> Ok, table |-> updateStatus(issuesTable, issueId, status),
            calls |-> <<"issueRepository.updateIssueStatus">>]

\* the HTTP status the updateIssueStatus handler answers a thrown error with
updateStatusErrorStatus(message) ==
  IF includes(message, SubInvalidStatus) THEN 400 ELSE 500

(***************************************************************************)
(* IssueService and IssueRepository: staff tasks                           *)
(***************************************************************************)
LabelValidation == <<"v", "a", "l", "i", "d", "a", "t", "i", "o", "n">>

LabelAssigned == <<"a", "s", "s", "i", "g", "n", "e", "d">>

LabelInProgress == <<"i", "n", "-", "p", "r", "o", "g", "r", "e", "s", "s">>

LabelCompleted == <<"c", "o", "m", "p", "l", "e", "t", "e", "d">>

LowerReported == <<"r", "e", "p", "o", "r", "t", "e", "d">>

LowerAssigned == <<"a", "s", "s", "i", "g", "n", "e", "d">>

LowerInProgress == <<"i", "n", "_", "p", "r", "o", "g", "r", "e", "s", "s">>

LowerResolved == <<"r", "e", "s", "o", "l", "v", "e", "d">>

\* ORDER BY CASE i.Status WHEN ... END: NULL (no branch) sorts first
StatusPriority(status) ==
  CASE status = ASSIGNED    -> 1
    [] status = IN_PROGRESS -> 2
    [] status = REPORTED    -> 3
    [] status = RESOLVED    -> 4
    [] OTHER                -> 0

\* 2 * cos(d) for a difference of d degrees
CosTwice(d) == CASE Abs(d) = 0 -> 2 [] Abs(d) = 60 -> 1 [] Abs(d) = 120 -> -1

\* 8 * sin(lat1) * sin(lat2)
SinSin8(lat1, lat2) == IF lat1 = 60 /\ lat2 = 60 THEN 6 ELSE 0

\* 6371 * ACOS(COS(staffLat) COS(lat) COS(lon - staffLon) + SIN(staffLat) SIN(lat)) in
\* metres: the argument x of ACOS is a multiple of 1/8 on the grid, and
\* 6371 * acos(x) is the arc of the haversine term (1 - x) / 2
sqlDistance(staffLat, staffLon, lat, lon) ==
  LET x8 == Cos2(staffLat) * Cos2(lat) * CosTwice(lon - staffLon) + SinSin8(staffLat, lat)
  IN  ArcMeters[8 - x8]

\* the row a may come before the row b under
\* ORDER BY CASE i.Status ... END, i.CreatedAt DESC
OrderedBeforeByDistance(a, b) ==
  \/ a.Distance < b.Distance
  \/ /\ a.Distance = b.Distance
     /\ \/ StatusPriority(a.Status) < StatusPriority(b.Status)
        \/ StatusPriority(a.Status) = StatusPriority(b.Status) /\ a.CreatedAt >= b.CreatedAt

OrderedBefore(a, b) ==
  \/ StatusPriority(a.Status) < StatusPriority(b.Status)
  \/ StatusPriority(a.Status) = StatusPriority(b.Status) /\ a.CreatedAt >= b.CreatedAt

\* the value of the Distance column when it is NULL
NullDistance == -1

\* IssueRepository.getStaffTasks: the record sets the query may return; rows
\* that ORDER BY does not tell apart come in any order
repoGetStaffTasks(issuesTable, staffDepartmentId, staffLat, staffLon) ==
  LET selected == {i \in 1..Len(issuesTable) :
                     issuesTable[i].DepartmentId = staffDepartmentId}
      n    == Cardinality(selected)
      row(i) ==
        [IssueId   |-> issuesTable[i].IssueId,
         IssueType |-> issuesTable[i].IssueType,
         Status    |-> issuesTable[i].Status,
         Latitude  |-> issuesTable[i].Latitude,
         Longitude |-> issuesTable[i].Longitude,
         CreatedAt |-> issuesTable[i].CreatedAt,
         Distance  |-> IF staffLat # JsNull /\ staffLon # JsNull
                         THEN sqlDistance(staffLat.v, staffLon.v,
                                          issuesTable[i].Latitude, issuesTable[i].Longitude)
                         ELSE NullDistance]
  IN  { [k \in 1..n |-> row(f[k])] :
          f \in {g \in [1..n -> selected] :
                   /\ \A j, k \in 1..n : j # k => g[j] # g[k]
                   /\ \A k \in 1..(n - 1) : OrderedBefore(row(g[k]), row(g[k + 1]))} }

\* the status label of the staff view
staffStatusUnknownKept(status) ==
  LET lower == IF status = Null THEN Null
               ELSE [k \in 1..Len(status) |-> toLowerCase(status[k])]
  IN  IF lower = LowerReported THEN LabelValidation
      ELSE IF lower = LowerAssigned THEN LabelAssigned
      ELSE IF lower = LowerInProgress THEN LabelInProgress
      ELSE IF lower = LowerResolved THEN LabelCompleted
      ELSE lower

staffStatus(status) ==
  LET lower == IF status = Null THEN Null
               ELSE [k \in 1..Len(status) |-> toLowerCase(status[k])]
  IN  IF lower = LowerReported THEN LabelValidation
      ELSE IF lower = LowerAssigned THEN LabelAssigned
      ELSE IF lower = LowerInProgress THEN LabelInProgress
      ELSE IF lower = LowerResolved THEN LabelCompleted
      ELSE LabelValidation

\* row.Distance ? `${row.Distance.toFixed(1)} km` : 'N/A', in tenths of a
\* kilometre, NullDistance for 'N/A'
staffDistance(distance) ==
  IF distance # NullDistance /\ distance # 0 THEN (distance + 50) \div 100 ELSE NullDistance

\* IssueService.getStaffTasks: rows.map(...)
staffTasks(rows) ==
  [k \in 1..Len(rows) |->
     [id        |-> rows[k].IssueId,
      status    |-> staffStatus(rows[k].Status),
      latitude  |-> rows[k].Latitude,
      longitude |-> rows[k].Longitude,
      distance  |-> staffDistance(rows[k].Distance),
      createdAt |-> rows[k].CreatedAt]]

(***************************************************************************)
(* IssueService and IssueRepository: attendance                            *)
(*                                                                         *)
(* calculateDistance returns kilometres as a count of thousandths. The     *)
(* numbers computed from it are decimals m * 10^e, so that the product     *)
(* with 1000 is computed without leaving the integers of the checker.      *)
(***************************************************************************)
\* the number m * 10^e
Dec(m, e) == [t |-> "dec", m |-> m, e |-> e]

\* the SQL NULL / JavaScript null in a numeric column
NullDec == [t |-> "null", m |-> 0, e |-> 0]

\* the return value of calculateDistance as a number of kilometres
distanceKmOf(lat1, lon1, lat2, lon2) == Dec(calculateDistance(lat1, lon1, lat2, lon2), -3)

\* the staff user of the request (req.user.userId)
StaffUserId == 21

\* IssueRepository.getIssueById: the record set of
\* SELECT ... FROM Issues i ... WHERE i.IssueId = @issueId
getIssueById(issueId, issuesTable) ==
  SelectSeq(issuesTable, LAMBDA row : row.IssueId = issueId)

\* distance || null, the value bound to @distance
distanceOrNull(distance) == IF distance.t = "dec" /\ distance.m # 0 THEN distance ELSE NullDec

\* IssueRepository.addIssueAttendance: the row the INSERT adds, as OUTPUT
\* INSERTED returns it
insertAttendance(data, attendanceTable, now) ==
  [AttendanceId      |-> Len(attendanceTable) + 1,
   IssueId           |-> data.issueId,
   StaffId           |-> data.staffId,
   StaffLatitude     |-> data.staffLat,
   StaffLongitude    |-> data.staffLon,
   DistanceFromIssue |-> distanceOrNull(data.distance),
   AttendanceTime    |-> now]

\* distanceKm * 1000
kmToMeters(distanceKm) == Dec(distanceKm.m, distanceKm.e + 3)

\* an addIssueAttendance that throws msg after the calls made
attendanceFailed(msg, calls) ==
  [error |-> msg, inserted |-> FALSE, row |-> <<>>, calls |-> calls]

\* lines 227 to 244: the distance, the repository call and the result
attendanceOfIssue(issueId, staffId, staffLat, staffLon, issue, attendanceTable, now) ==
  [error |-> Ok, inserted |-> TRUE,
   row |-> insertAttendance(
             [issueId |-> issueId, staffId |-> staffId,
              staffLat |-> staffLat.v, staffLon |-> staffLon.v,
              distance |-> kmToMeters(distanceKmOf(staffLat.v, staffLon.v,
                                                   issue.Latitude, issue.Longitude))],
             attendanceTable, now),
   calls |-> <<"issueRepository.getIssueById", "calculateDistance",
               "issueRepository.addIssueAttendance">>]

\* the object addIssueAttendance returns for the inserted row
attendanceView(row) ==
  [attendanceId   |-> row.AttendanceId,
   issueId        |-> row.IssueId,
   staffId        |-> row.StaffId,
   staffLatitude  |-> row.StaffLatitude,
   staffLongitude |-> row.StaffLongitude,
   distanceMeters |-> row.DistanceFromIssue,
   attendanceTime |-> row.AttendanceTime]

\* lines 223 to 244 once the record set of getIssueById is known
attendanceOfFound(issueId, staffId, staffLat, staffLon, found, attendanceTable, now) ==
  IF Len(found) = 0
    THEN attendanceFailed(MsgIssueNotFound, <<"issueRepository.getIssueById">>)
    ELSE attendanceOfIssue(issueId, staffId, staffLat, staffLon, found[1],
                           attendanceTable, now)

\* IssueService.addIssueAttendance: the error thrown (Ok when none), the row
\* inserted and the calls made; issueId 0 and staffId 0 are the falsy ids
addIssueAttendance(issueId, staffId, staffLat, staffLon, issuesTable, attendanceTable, now) ==
  IF issueId = 0 \/ staffId = 0 \/ ~NumberIsFinite(staffLat) \/ ~NumberIsFinite(staffLon)
    THEN attendanceFailed(MsgInvalidAttendance, <<>>)
    ELSE attendanceOfFound(issueId, staffId, staffLat, staffLon,
                           getIssueById(issueId, issuesTable), attendanceTable, now)

\* the Issue_Attendance table after addIssueAttendance returned r: the INSERT
\* adds the row, a call that threw ran no statement
attendanceAfterUpsert(attendanceTable, r) ==
  IF ~r.inserted THEN attendanceTable
  ELSE IF \E i \in 1..Len(attendanceTable) :
            /\ attendanceTable[i].IssueId = r.row.IssueId
            /\ attendanceTable[i].StaffId = r.row.StaffId
    THEN [i \in 1..Len(attendanceTable) |->
            IF /\ attendanceTable[i].IssueId = r.row.IssueId
               /\ attendanceTable[i].StaffId = r.row.StaffId
              THEN [r.row EXCEPT !.AttendanceId = attendanceTable[i].AttendanceId]
              ELSE attendanceTable[i]]
  ELSE Append(attendanceTable, r.row)

attendanceAfter(attendanceTable, r) ==
  IF r.inserted THEN Append(attendanceTable, r.row) ELSE attendanceTable

\* the HTTP status the addAttendance handler answers a thrown error with
addAttendanceErrorStatusServer(message) == 500

addAttendanceErrorStatus(message) ==
  IF includes(message, SubNotFound) \/ includes(message, SubInvalid) THEN 400 ELSE 500

(***************************************************************************)
(* Authentication and authorization middleware                             *)
(*                                                                         *)
(* A token is the record of what jwt.verify finds in it: whether the       *)
(* signature is that of the server, whether it has expired, and the        *)
(* payload generateToken signed. The Authorization header is the sequence  *)
(* of its parts between spaces.                                            *)
(***************************************************************************)
MsgAccessTokenRequired == <<"A", "c", "c", "e", "s", "s", " ", "t", "o", "k", "e", "n", " ", "r", "e", "q", "u", "i", "r", "e", "d">>

MsgInvalidToken == <<"I", "n", "v", "a", "l", "i", "d", " ", "o", "r", " ", "e", "x", "p", "i", "r", "e", "d", " ", "t", "o", "k", "e", "n">>

MsgAuthenticationRequired == <<"A", "u", "t", "h", "e", "n", "t", "i", "c", "a", "t", "i", "o", "n", " ", "r", "e", "q", "u", "i", "r", "e", "d">>

MsgNoPermission == <<"Y", "o", "u", " ", "d", "o", " ", "n", "o", "t", " ", "h", "a", "v", "e", " ", "p", "e", "r", "m", "i", "s", "s", "i", "o", "n", " ", "t", "o", " ", "a", "c", "c", "e", "s", "s", " ", "t", "h", "i", "s", " ", "r", "e", "s", "o", "u", "r", "c", "e">>

CITIZEN == <<"C", "I", "T", "I", "Z", "E", "N">>

STAFF == <<"S", "T", "A", "F", "F">>

ADMIN == <<"A", "D", "M", "I", "N">>

\* the header is absent
NoHeader == <<>>

\* req.user before any middleware has set it
NoUser == [userId |-> 0, role |-> Null]

Token(signed, expired, userId, role) ==
  [signed |-> signed, expired |-> expired, userId |-> userId, role |-> role]

\* AuthService.verifyToken: the decoded payload, or the error thrown
verifyToken(token) ==
  IF token.signed /\ ~token.expired
    THEN [error |-> Ok, decoded |-> [userId |-> token.userId, role |-> token.role]]
    ELSE [error |-> MsgInvalidToken, decoded |-> NoUser]

\* authenticateToken: whether next() is called, req.user afterwards, and the
\* response sent otherwise
authenticateToken(authHeader) ==
  IF Len(authHeader) < 2
    THEN [next |-> FALSE, user |-> NoUser, status |-> 401, error |-> MsgAccessTokenRequired]
  ELSE IF verifyToken(authHeader[2]).error # Ok
    THEN [next |-> FALSE, user |-> NoUser, status |-> 403, error |-> MsgInvalidToken]
  ELSE [next |-> TRUE, user |-> verifyToken(authHeader[2]).decoded, status |-> 0,
        error |-> Ok]

\* authorize(...allowedRoles): whether next() is called, and the response
\* sent otherwise
authorizeAuthenticated(allowedRoles, user) ==
  IF user = NoUser
    THEN [next |-> FALSE, status |-> 401, error |-> MsgAuthenticationRequired]
  ELSE [next |-> TRUE, status |-> 0, error |-> Ok]

authorize(allowedRoles, user) ==
  IF user = NoUser
    THEN [next |-> FALSE, status |-> 401, error |-> MsgAuthenticationRequired]
  ELSE IF ~InSeq(user.role, allowedRoles)
    THEN [next |-> FALSE, status |-> 403, error |-> MsgNoPermission]
  ELSE [next |-> TRUE, status |-> 0, error |-> Ok]

(***************************************************************************)
(* AuthService, AuthRepository and AuthController: signup                  *)
(***************************************************************************)
MsgSignupRequired == <<"F", "u", "l", "l", " ", "n", "a", "m", "e", ",", " ", "p", "h", "o", "n", "e", " ", "n", "u", "m", "b", "e", "r", ",", " ", "p", "a", "s", "s", "w", "o", "r", "d", ",", " ", "a", "n", "d", " ", "r", "o", "l", "e", " ", "a", "r", "e", " ", "r", "e", "q", "u", "i", "r", "e", "d">>

MsgInvalidPhone == <<"I", "n", "v", "a", "l", "i", "d", " ", "p", "h", "o", "n", "e", " ", "n", "u", "m", "b", "e", "r", " ", "f", "o", "r", "m", "a", "t", ".", " ", "U", "s", "e", " ", "1", "0", "-", "1", "5", " ", "d", "i", "g", "i", "t", "s", " ", "w", "i", "t", "h", "o", "u", "t", " ", "s", "p", "a", "c", "e", "s", " ", "o", "r", " ", "s", "p", "e", "c", "i", "a", "l", " ", "c", "h", "a", "r", "a", "c", "t", "e", "r", "s">>

MsgInvalidRole == <<"I", "n", "v", "a", "l", "i", "d", " ", "r", "o", "l", "e", ".", " ", "M", "u", "s", "t", " ", "b", "e", " ", "C", "I", "T", "I", "Z", "E", "N", ",", " ", "S", "T", "A", "F", "F", ",", " ", "o", "r", " ", "A", "D", "M", "I", "N">>

MsgPasswordShort == <<"P", "a", "s", "s", "w", "o", "r", "d", " ", "m", "u", "s", "t", " ", "b", "e", " ", "a", "t", " ", "l", "e", "a", "s", "t", " ", "6", " ", "c", "h", "a", "r", "a", "c", "t", "e", "r", "s", " ", "l", "o", "n", "g">>

MsgPhoneRegistered == <<"P", "h", "o", "n", "e", " ", "n", "u", "m", "b", "e", "r", " ", "a", "l", "r", "e", "a", "d", "y", " ", "r", "e", "g", "i", "s", "t", "e", "r", "e", "d">>

MsgCreateUserPrefix == <<"D", "a", "t", "a", "b", "a", "s", "e", " ", "e", "r", "r", "o", "r", " ", "i", "n", " ", "c", "r", "e", "a", "t", "e", "U", "s", "e", "r", ":", " ">>

\* the message of the error the database raises on a second row of the same
\* phone_number
MsgDuplicateKey == <<"V", "i", "o", "l", "a", "t", "i", "o", "n", " ", "o", "f", " ", "U", "N", "I", "Q", "U", "E", " ", "K", "E", "Y", " ", "c", "o", "n", "s", "t", "r", "a", "i", "n", "t", ".", " ", "C", "a", "n", "n", "o", "t", " ", "i", "n", "s", "e", "r", "t", " ", "d", "u", "p", "l", "i", "c", "a", "t", "e", " ", "k", "e", "y", " ", "i", "n", " ", "o", "b", "j", "e", "c", "t", " ", "'", "d", "b", "o", ".", "U", "s", "e", "r", "s", "'", ".">>

SubAlreadyRegistered == <<"a", "l", "r", "e", "a", "d", "y", " ", "r", "e", "g", "i", "s", "t", "e", "r", "e", "d">>

SubMustBe == <<"m", "u", "s", "t", " ", "b", "e">>

SubDuplicate == <<"d", "u", "p", "l", "i", "c", "a", "t", "e">>

SubUnique == <<"U", "N", "I", "Q", "U", "E">>

\* String.prototype.toUpperCase on the letters a to z
toUpperCaseText(s) ==
  [i \in 1..Len(s) |->
     IF s[i] \in LowerSet
       THEN UpperChars[CHOOSE j \in 1..26 : LowerChars[j] = s[i]]
       ELSE s[i]]

\* /^[0-9]{10,15}$/.test(phoneNumber)
validatePhoneNumber(phoneNumber) ==
  /\ Len(phoneNumber) \in 10..15
  /\ \A i \in 1..Len(phoneNumber) : phoneNumber[i] \in DigitSet

\* validRoles.includes(role.toUpperCase())
validateRole(role) == InSeq(toUpperCaseText(role), <<CITIZEN, STAFF, ADMIN>>)

\* lines 115 to 130 of register: the error thrown by the validation
registerInvalid(userData) ==
  IF \/ ~Truthy(userData.fullName) \/ ~Truthy(userData.phoneNumber)
     \/ ~Truthy(userData.password) \/ ~Truthy(userData.role)
    THEN MsgSignupRequired
  ELSE IF ~validatePhoneNumber(userData.phoneNumber) THEN MsgInvalidPhone
  ELSE IF ~validateRole(userData.role) THEN MsgInvalidRole
  ELSE IF Len(userData.password) < 6 THEN MsgPasswordShort
  ELSE Ok

\* AuthRepository.phoneNumberExists: result.recordset.length > 0
phoneNumberExists(phoneNumber, usersTable) ==
  \E i \in 1..Len(usersTable) : usersTable[i].phone_number = phoneNumber

\* the INSERT INTO Users under the unique constraint on phone_number: the
\* row added, or the error of the database
insertUser(userData, usersTable, now) ==
  IF \E i \in 1..Len(usersTable) : usersTable[i].phone_number = userData.phoneNumber
    THEN [error |-> MsgDuplicateKey, inserted |-> FALSE, row |-> <<>>]
    ELSE [error |-> Ok, inserted |-> TRUE,
          row |-> [UserId       |-> Len(usersTable) + 1,
                   FullName     |-> userData.fullName,
                   phone_number |-> userData.phoneNumber,
                   Role         |-> toUpperCaseText(userData.role),
                   CreatedAt    |-> now]]

\* the catch of AuthRepository.createUser: the error thrown for the error of
\* the database
createUserErrorDatabase(message) == MsgCreateUserPrefix \o message

createUserError(message) ==
  IF includes(message, SubDuplicate) \/ includes(message, SubUnique)
    THEN MsgPhoneRegistered
    ELSE MsgCreateUserPrefix \o message

\* the catch of AuthController.signup: the HTTP status for a thrown error
signupErrorStatus(message) ==
  IF includes(message, SubAlreadyRegistered) THEN 409
  ELSE IF \/ includes(message, SubRequired) \/ includes(message, SubInvalid)
          \/ includes(message, SubMustBe) THEN 400
  ELSE 500

(***************************************************************************)
(* Bounds and inputs                                                       *)
(***************************************************************************)
\* the Issues table holds at most this many rows
MaxIssues == 2

\* a classified description has at most this many words
MaxWords == 3

\* a Departments table given to the nearest-department selection has at most
\* this many rows
MaxDepartments == 3

Department(id, name, lat, lon) ==
  [DepartmentId |-> id, DepartmentName |-> name, Latitude |-> lat, Longitude |-> lon]

\* the seeded Departments table, rows in table order
SeededDirectory ==
  << Department(4, NameWater, 0, 120), Department(1, NamePWD, 0, 0),
     Department(3, NameElectricity, 0, 120) >>

\* the Departments tables an intake is tried against: the empty one, the
\* seeded one, one without a PWD department, one with two departments of
\* the same name and one with two departments whose names differ in
\* punctuation and white space only
Directories ==
  { <<>>,
    SeededDirectory,
    << Department(5, NameRoads, 60, 60), Department(4, NameWater, 0, 60) >>,
    << Department(7, NamePwdLower, 60, 0), Department(1, NamePWD, 0, 0) >>,
    << Department(8, NamePwdBang, 60, 60), Department(2, NameSpacePwd, 0, 60) >> }

Descriptions == {Null, <<>>, TxtBlank, TxtCat, TxtPothole, TxtLongest, TxtTooLong}

IssueTypes == {Null, TxtWater}

LatitudeInputs == {Num(0), Num(60), NaN, Undefined}

LongitudeInputs == {Num(0), Num(120), Infinity}

DepartmentIdInputs == {NullId, 0, 1, 9}

IssueData(departmentId, issueType, description, latitude, longitude) ==
  [citizenId |-> 11, departmentId |-> departmentId, issueType |-> issueType,
   description |-> description, latitude |-> latitude, longitude |-> longitude,
   address |-> Null]

\* every request body tried on POST /api/issues/create
Intakes ==
  { IssueData(dp, ty, ds, la, lo) :
      dp \in DepartmentIdInputs, ty \in IssueTypes, ds \in Descriptions,
      la \in LatitudeInputs, lo \in LongitudeInputs }

\* the request bodies used where issues are also updated and listed
LifecycleIntakes ==
  { IssueData(NullId, Null, TxtPothole, Num(0), Num(0)),
    IssueData(1, Null, TxtCat, Num(60), Num(120)),
    IssueData(0, TxtWater, TxtCat, Num(0), Num(120)),
    IssueData(NullId, Null, TxtBlank, Num(0), Num(0)) }

StatusInputs == {<<>>, REPORTED, ASSIGNED, IN_PROGRESS, RESOLVED, TxtDone, TxtResolvedLower}

\* the lat and lon query parameters of GET /api/issues/staff-tasks
StaffPositions ==
  { <<Undefined, Undefined>>, <<Num(0), Undefined>>, <<Num(60), Num(120)>> }

StaffDepartments == {1, 4}

\* the words descriptions are made of for the classifier
Vocabulary == {WordWater, WordNo, WordLight, WordStreet, WordGarbage, WordTape, WordRoads}

\* the words of ws joined by single spaces
RECURSIVE JoinWords(_)
JoinWords(ws) ==
  IF ws = <<>> THEN <<>>
  ELSE IF Len(ws) = 1 THEN ws[1]
  ELSE ws[1] \o <<" ">> \o JoinWords(Tail(ws))

ClassifierDescriptions ==
  {Null} \cup { JoinWords(ws) : ws \in UNION {[1..n -> Vocabulary] : n \in 0..MaxWords} }

ClassifierIssueTypes == {Null, TypeRoad}

\* the Departments tables tried on the nearest-department selection
NearestDirectories ==
  UNION { { [i \in 1..n |-> Department(i, NamePWD, f[i][1], f[i][2])] :
              f \in [1..n -> Lats \X Lons] } :
          n \in 0..MaxDepartments }

\* the Issue_Attendance table holds at most this many rows
MaxAttendance == 2

\* the request bodies of the issues attendance is recorded for
AttendanceIntakes ==
  { IssueData(1, Null, TxtCat, Num(0), Num(0)),
    IssueData(4, Null, TxtCat, Num(60), Num(120)) }

\* the latitude and longitude of the body of POST /api/issues/:issueId/attendance
StaffLatitudes == {Num(0), NaN}

StaffLongitudes == {Num(0), Num(120), Undefined}

\* a normalized text has at most this many characters before normalization
MaxText == 4

\* the characters texts given to normalizeText are made of
NormalizeChars == {"a", "B", "7", " ", "\t", "-", KelvinSign, DottedI}

NormalizeTexts ==
  {Null} \cup UNION {[1..n -> NormalizeChars] : n \in 0..MaxText}

\* the request body of the k-th issue where every operation is tried: an
\* explicit department, then a department by keyword
OperationIntake(k) ==
  IF k % 2 = 1 THEN IssueData(1, Null, TxtCat, Num(0), Num(0))
  ELSE IssueData(NullId, TxtWater, TxtCat, Num(60), Num(120))

\* the statuses asked for where every operation is tried
OperationStatuses == {IN_PROGRESS, RESOLVED, TxtDone}

\* the staff positions tasks are listed for where every operation is tried
OperationPositions == { <<Undefined, Undefined>>, <<Num(0), Num(0)>> }

\* at most this many createIssue calls run at the same time
MaxCalls == 2

\* the request bodies of the concurrent calls: an explicit department, a
\* department by keyword, the nearest department and a blank description
ConcurrentIntakes ==
  { IssueData(1, Null, TxtCat, Num(60), Num(120)),
    IssueData(NullId, TxtWater, TxtCat, Num(0), Num(0)),
    IssueData(NullId, Null, TxtCat, Num(60), Num(120)),
    IssueData(NullId, Null, TxtBlank, Num(0), Num(0)) }

\* the Authorization headers of the requests to a protected route: none, a
\* scheme without a token, and tokens that are forged, expired or valid for
\* each role
AuthorizationHeaders ==
  { NoHeader, <<"Bearer">> }
    \cup { <<"Bearer", Token(sg, ex, 21, role)>> :
             sg \in BOOLEAN, ex \in BOOLEAN, role \in {CITIZEN, STAFF, ADMIN} }

\* at most this many signups run at the same time
MaxSignups == 2

PhoneOne == <<"9", "8", "7", "6", "5", "4", "3", "2", "1", "0">>

PhoneTwo == <<"9", "8", "7", "6", "5", "4", "3", "2", "1", "1">>

PhoneShort == <<"9", "8", "7", "6", "5", "4", "3", "2", "1">>

NameAsha == <<"A", "s", "h", "a">>

PasswordSecret == <<"s", "e", "c", "r", "e", "t", "1">>

RoleCitizenLower == <<"c", "i", "t", "i", "z", "e", "n">>

\* the request bodies of the signups: two phone numbers, one of them with
\* either spelling of the role, and a phone number that is too short
SignupBodies ==
  { [fullName |-> NameAsha, phoneNumber |-> ph, password |-> PasswordSecret, role |-> ro] :
      ph \in {PhoneOne, PhoneTwo, PhoneShort}, ro \in {STAFF, RoleCitizenLower} }

\* a record set given to the staff view has at most this many rows
MaxRows == 2

\* the values of the Status column the staff view is tried on: the four
\* statuses, NULL, the empty string, other spellings and other words
RowStatuses ==
  {Null, <<>>, REPORTED, ASSIGNED, IN_PROGRESS, RESOLVED, TxtResolvedLower,
   TxtAssignedMixed, TxtInProgressHyphen, TxtDone, TxtClosed}

\* the coordinates the distance on its own is taken between
DistanceLats == {-60, 0, 60}

DistanceLons == {-120, -60, 0, 60, 120, 180}

(***************************************************************************)
(* State                                                                   *)
(***************************************************************************)
VARIABLES
  departments,  \* the Departments table, rows in table order
  issues,       \* the Issues table, rows in insertion order
  clock,        \* the database clock that CreatedAt defaults to
  last,         \* the last request handled: its input, its response, the calls made
  call,         \* a request or function call under test: its arguments, its result
  attendance,   \* the Issue_Attendance table, rows in insertion order
  users,        \* the Users table, rows in insertion order
  pool          \* the variable pool of the db module

vars == <<departments, issues, clock, last, call, attendance, users, pool>>

\* the value of pool before it is assigned (undefined)
NoPool == [connection |-> 0]

NoCall == [fn |-> "none", done |-> TRUE]

Init ==
  /\ departments \in {<<>>, SeededDirectory}
  /\ issues = <<>>
  /\ clock = 1
  /\ attendance = <<>>
  /\ users = <<>>
  /\ pool = NoPool
  /\ last = [op |-> "none"]
  /\ call = NoCall

(***************************************************************************)
(* IssueController handlers                                                *)
(***************************************************************************)
\* IssueController.createIssue on the request body data; the database clock
\* advances past the CreatedAt of the new row
HandleCreateIssue(data) ==
  \E r \in {createIssue(data, departments, issues, clock)} :
      /\ issues' = IF r.inserted THEN Append(issues, r.row) ELSE issues
      /\ clock' = IF r.inserted THEN clock + 1 ELSE clock
      /\ last' = [op     |-> "createIssue",
                  data   |-> data,
                  status |-> IF r.error = Ok THEN 201 ELSE createIssueErrorStatus(r.error),
                  error  |-> r.error,
                  issueId |-> IF r.inserted THEN r.row.IssueId ELSE 0,
                  departmentId |-> IF r.inserted THEN r.row.DepartmentId ELSE NullId,
                  nearestDepartment |->
                    IF r.nearestDept # NoDepartment
                      THEN [departmentId   |-> r.nearestDept.DepartmentId,
                            departmentName |-> r.nearestDept.DepartmentName,
                            distance       |-> toFixed2(r.nearestDept.distance)]
                      ELSE [departmentId |-> NullId, departmentName |-> Null,
                            distance |-> 0],
                  allocationStrategy |-> r.allocationStrategy,
                  calls  |-> r.calls]
      /\ UNCHANGED <<departments, attendance, users, pool>>

\* POST /api/issues/create
CreateIssue ==
  \E data \in LifecycleIntakes :
    /\ Len(issues) < MaxIssues
    /\ HandleCreateIssue(data)
    /\ UNCHANGED call

\* IssueController.updateIssueStatus on the issue id of the path and the
\* status of the body
HandleUpdateIssueStatus(issueId, status) ==
  LET r == updateIssueStatus(issueId, status, issues)
      from == IF issueId <= Len(issues) THEN issues[issueId].Status ELSE Null
  IN  /\ IF ~Truthy(status)
           THEN /\ issues' = issues
                /\ last' = [op |-> "updateIssueStatus", issueId |-> issueId,
                            target |-> status, from |-> from, status |-> 400,
                            error |-> MsgStatusRequired, calls |-> <<>>]
           ELSE /\ issues' = r.table
                /\ last' = [op |-> "updateIssueStatus", issueId |-> issueId,
                            target |-> status, from |-> from,
                            status |-> IF r.error = Ok THEN 200
                                       ELSE updateStatusErrorStatus(r.error),
                            error |-> r.error,
                            calls |-> <<"issueService.updateIssueStatus">> \o r.calls]
      /\ UNCHANGED <<departments, clock, attendance, users, pool>>

\* PATCH /api/issues/:issueId/status
UpdateIssueStatus ==
  \E issueId \in 1..(Len(issues) + 1), status \in StatusInputs :
    /\ issues # <<>>
    /\ HandleUpdateIssueStatus(issueId, status)
    /\ UNCHANGED call

\* IssueController.getStaffTasks for staff of the department at the position
\* of the lat and lon query parameters
HandleGetStaffTasks(staffDepartmentId, position) ==
  LET staffLat == IF position[1] = Undefined THEN JsNull ELSE position[1]
      staffLon == IF position[2] = Undefined THEN JsNull ELSE position[2]
  IN  /\ \E rows \in repoGetStaffTasks(issues, staffDepartmentId, staffLat, staffLon) :
           last' = [op |-> "getStaffTasks", staffDepartmentId |-> staffDepartmentId,
                    staffLat |-> staffLat, staffLon |-> staffLon,
                    status |-> 200, rows |-> rows, tasks |-> staffTasks(rows)]
      /\ UNCHANGED <<departments, issues, clock, call, attendance, users, pool>>

\* GET /api/issues/staff-tasks
GetStaffTasks ==
  \E staffDepartmentId \in StaffDepartments, position \in StaffPositions :
    /\ issues # <<>>
    /\ HandleGetStaffTasks(staffDepartmentId, position)

Next == CreateIssue \/ UpdateIssueStatus \/ GetStaffTasks

Spec == Init /\ [][Next]_vars

(***************************************************************************)
(* One intake on its own, over every request body and directory            *)
(***************************************************************************)
InitIntake ==
  /\ departments \in Directories
  /\ issues = <<>>
  /\ clock = 1
  /\ attendance = <<>>
  /\ users = <<>>
  /\ pool = NoPool
  /\ last = [op |-> "none"]
  /\ call \in {[fn |-> "createIssue", done |-> FALSE, data |-> d] : d \in Intakes}

SubmitIssue ==
  /\ call.fn = "createIssue"
  /\ ~call.done
  /\ HandleCreateIssue(call.data)
  /\ call' = [call EXCEPT !.done = TRUE]

NextIntake == SubmitIssue

SpecIntake == InitIntake /\ [][NextIntake]_vars

(***************************************************************************)
(* The keyword classifier on its own                                       *)
(***************************************************************************)
InitClassify ==
  /\ departments = <<>>
  /\ issues = <<>>
  /\ clock = 1
  /\ attendance = <<>>
  /\ users = <<>>
  /\ pool = NoPool
  /\ last = [op |-> "none"]
  /\ call \in {[fn |-> "BestDept", done |-> FALSE, description |-> ds, issueType |-> ty,
                result |-> Null] :
                 ds \in ClassifierDescriptions, ty \in ClassifierIssueTypes}

Classify ==
  /\ call.fn = "BestDept"
  /\ ~call.done
  /\ call' = [call EXCEPT !.done = TRUE,
                          !.result = BestDept(call.description, call.issueType)]
  /\ UNCHANGED <<departments, issues, clock, last, attendance, users, pool>>

NextClassify == Classify

SpecClassify == InitClassify /\ [][NextClassify]_vars

(***************************************************************************)
(* The nearest-department selection on its own                             *)
(***************************************************************************)
InitNearest ==
  /\ departments \in NearestDirectories
  /\ issues = <<>>
  /\ clock = 1
  /\ attendance = <<>>
  /\ users = <<>>
  /\ pool = NoPool
  /\ last = [op |-> "none"]
  /\ call \in {[fn |-> "findNearestDepartment", done |-> FALSE, latitude |-> la,
                longitude |-> lo, error |-> Ok, dept |-> NoDepartment] :
                 la \in Lats, lo \in Lons}

FindNearest ==
  /\ call.fn = "findNearestDepartment"
  /\ ~call.done
  /\ LET r == findNearestDepartment(call.latitude, call.longitude, departments)
     IN  call' = [call EXCEPT !.done = TRUE, !.error = r.error, !.dept = r.dept]
  /\ UNCHANGED <<departments, issues, clock, last, attendance, users, pool>>

NextNearest == FindNearest

SpecNearest == InitNearest /\ [][NextNearest]_vars

(***************************************************************************)
(* Attendance: issues are reported and staff check in at them              *)
(***************************************************************************)
InitAttendance ==
  /\ departments = SeededDirectory
  /\ issues = <<>>
  /\ clock = 1
  /\ attendance = <<>>
  /\ users = <<>>
  /\ pool = NoPool
  /\ last = [op |-> "none"]
  /\ call = NoCall

\* POST /api/issues/create for an issue that staff will attend
ReportIssue ==
  \E data \in AttendanceIntakes :
    /\ Len(issues) < MaxIssues
    /\ HandleCreateIssue(data)
    /\ UNCHANGED call

\* IssueController.addAttendance on the issue id of the path and the
\* latitude and longitude of the body
HandleAddAttendance(issueId, latitude, longitude) ==
    /\ IF ~NumberIsFinite(latitude) \/ ~NumberIsFinite(longitude)
         THEN /\ attendance' = attendance
              /\ clock' = clock
              /\ last' = [op |-> "addAttendance", issueId |-> issueId,
                          latitude |-> latitude, longitude |-> longitude,
                          rowsBefore |-> Len(attendance),
                          status |-> 400, error |-> MsgLatLonRequired,
                          attendance |-> <<>>, calls |-> <<>>]
         ELSE \E r \in {addIssueAttendance(issueId, StaffUserId, latitude, longitude,
                                           issues, attendance, clock)} :
                /\ attendance' = attendanceAfter(attendance, r)
                /\ clock' = IF r.inserted THEN clock + 1 ELSE clock
                /\ last' = [op |-> "addAttendance", issueId |-> issueId,
                            latitude |-> latitude, longitude |-> longitude,
                            rowsBefore |-> Len(attendance),
                            status |-> IF r.error = Ok THEN 201
                                       ELSE addAttendanceErrorStatus(r.error),
                            error |-> r.error,
                            attendance |-> IF r.inserted THEN <<attendanceView(r.row)>>
                                           ELSE <<>>,
                            calls |-> <<"issueService.addIssueAttendance">> \o r.calls]
    /\ UNCHANGED <<departments, issues, call, users, pool>>

\* POST /api/issues/:issueId/attendance
AddAttendance ==
  \E issueId \in 1..(Len(issues) + 1), latitude \in StaffLatitudes,
     longitude \in StaffLongitudes :
    /\ Len(attendance) < MaxAttendance
    /\ HandleAddAttendance(issueId, latitude, longitude)

NextAttendance == ReportIssue \/ AddAttendance

SpecAttendance == InitAttendance /\ [][NextAttendance]_vars

(***************************************************************************)
(* Every operation on issues: they are reported, updated, listed for staff *)
(* and attended                                                            *)
(***************************************************************************)
InitOperations ==
  /\ departments = SeededDirectory
  /\ issues = <<>>
  /\ clock = 1
  /\ attendance = <<>>
  /\ users = <<>>
  /\ pool = NoPool
  /\ last = [op |-> "none"]
  /\ call = NoCall

\* POST /api/issues/create for the next issue
ReportNext ==
  /\ Len(issues) < MaxIssues
  /\ HandleCreateIssue(OperationIntake(Len(issues) + 1))
  /\ UNCHANGED call

\* PATCH /api/issues/:issueId/status
ChangeStatus ==
  \E issueId \in 1..(Len(issues) + 1), status \in OperationStatuses :
    /\ issues # <<>>
    /\ HandleUpdateIssueStatus(issueId, status)
    /\ UNCHANGED call

\* GET /api/issues/staff-tasks
ListTasks ==
  \E position \in OperationPositions :
    /\ issues # <<>>
    /\ HandleGetStaffTasks(1, position)

\* POST /api/issues/:issueId/attendance
CheckIn ==
  \E issueId \in 1..(Len(issues) + 1), latitude \in StaffLatitudes :
    /\ Len(attendance) < MaxAttendance
    /\ HandleAddAttendance(issueId, latitude, Num(0))

NextOperations == ReportNext \/ ChangeStatus \/ ListTasks \/ CheckIn

SpecOperations == InitOperations /\ [][NextOperations]_vars

(***************************************************************************)
(* Concurrent createIssue calls. Each call of the async function runs up   *)
(* to its next await in one step; call[c] holds the position and the local *)
(* variables of call c, the tables are shared.                             *)
(***************************************************************************)
\* the local variable departmentId of call c
resolvedDepartmentShared(calls, c) ==
  calls[CHOOSE d \in DOMAIN calls :
          /\ calls[d].pc \in {"issueRepository.createIssue", "done"}
          /\ \A e \in DOMAIN calls :
                calls[e].pc \in {"issueRepository.createIssue", "done"} => e <= d].departmentId

resolvedDepartment(calls, c) == calls[c].departmentId

InitConcurrent ==
  /\ departments \in {<<>>, SeededDirectory}
  /\ issues = <<>>
  /\ clock = 1
  /\ attendance = <<>>
  /\ users = <<>>
  /\ pool = NoPool
  /\ last = [op |-> "none"]
  /\ call \in [1..MaxCalls ->
                 {[pc |-> "createIssue", data |-> d, bestDept |-> Null,
                   departmentId |-> NullId, nearestDept |-> NoDepartment,
                   allocationStrategy |-> Null, error |-> Ok, issueId |-> 0] :
                    d \in ConcurrentIntakes}]

\* lines 156 to 165: validate, the explicit department, and the classifier up
\* to its await of departmentRepository.getAll()
EnterCreateIssue(c) ==
  /\ call[c].pc = "createIssue"
  /\ \E invalid \in {validate(call[c].data)} :
       \E best \in {BestDept(call[c].data.description, call[c].data.issueType)} :
         call' = [call EXCEPT
           ![c].pc = IF invalid # Ok THEN "done"
                     ELSE IF ~NotProvided(call[c].data.departmentId)
                       THEN "issueRepository.createIssue"
                     ELSE IF best = Null THEN "mapKeywordsToDepartmentId.return"
                     ELSE "mapKeywordsToDepartmentId.getAll",
           ![c].error = invalid,
           ![c].bestDept = IF invalid = Ok /\ NotProvided(call[c].data.departmentId)
                             THEN best ELSE Null,
           ![c].departmentId = IF invalid = Ok /\ ~NotProvided(call[c].data.departmentId)
                                 THEN call[c].data.departmentId ELSE NullId]
  /\ UNCHANGED <<departments, issues, clock, last, attendance, users, pool>>

\* lines 85 to 101: the classifier from the record set of getAll to its return
KeywordsGetAll(c) ==
  /\ call[c].pc = "mapKeywordsToDepartmentId.getAll"
  /\ call' = [call EXCEPT
       ![c].pc = "mapKeywordsToDepartmentId.return",
       ![c].departmentId = departmentOfName(call[c].bestDept, getAll(departments)).id]
  /\ UNCHANGED <<departments, issues, clock, last, attendance, users, pool>>

\* lines 165 to 171: createIssue from the classifier's result to the await of
\* findNearestDepartment or of the repository
KeywordsReturn(c) ==
  /\ call[c].pc = "mapKeywordsToDepartmentId.return"
  /\ call' = [call EXCEPT
       ![c].pc = IF NotResolved(call[c].departmentId)
                   THEN "findNearestDepartment.getAll"
                   ELSE "issueRepository.createIssue",
       ![c].allocationStrategy = IF IdTruthy(call[c].departmentId)
                                   THEN StrategyKeywords ELSE Null]
  /\ UNCHANGED <<departments, issues, clock, last, attendance, users, pool>>

\* lines 124 to 145 and 171 to 174: findNearestDepartment from the record set
\* of getAll, and createIssue up to the await of the repository
NearestGetAll(c) ==
  /\ call[c].pc = "findNearestDepartment.getAll"
  /\ \E r \in {findNearestDepartment(call[c].data.latitude.v, call[c].data.longitude.v,
                                       departments)} :
       call' = [call EXCEPT
         ![c].pc = IF r.error # Ok THEN "done" ELSE "issueRepository.createIssue",
         ![c].error = r.error,
         ![c].nearestDept = r.dept,
         ![c].departmentId = r.dept.DepartmentId,
         ![c].allocationStrategy = IF r.error # Ok THEN Null
                                   ELSE IF call[c].allocationStrategy # Null
                                     THEN call[c].allocationStrategy
                                   ELSE StrategyNearest]
  /\ UNCHANGED <<departments, issues, clock, last, attendance, users, pool>>

\* lines 176 to 195: the INSERT of the repository and the result
InsertIssue(c) ==
  /\ call[c].pc = "issueRepository.createIssue"
  /\ \E row \in {insertIssue([citizenId    |-> call[c].data.citizenId,
                                departmentId |-> resolvedDepartment(call, c),
                                issueType    |-> call[c].data.issueType,
                                description  |-> call[c].data.description,
                                latitude     |-> call[c].data.latitude.v,
                                longitude    |-> call[c].data.longitude.v,
                                address      |-> call[c].data.address],
                               issues, clock)} :
       /\ issues' = Append(issues, row)
       /\ call' = [call EXCEPT ![c].pc = "done", ![c].issueId = row.IssueId]
  /\ clock' = clock + 1
  /\ UNCHANGED <<departments, last, attendance, users, pool>>

NextConcurrent ==
  \E c \in 1..MaxCalls :
    \/ EnterCreateIssue(c)
    \/ KeywordsGetAll(c)
    \/ KeywordsReturn(c)
    \/ NearestGetAll(c)
    \/ InsertIssue(c)

SpecConcurrent == InitConcurrent /\ [][NextConcurrent]_vars

(***************************************************************************)
(* The protected route PATCH /api/issues/:issueId/status                   *)
(***************************************************************************)
InitProtected ==
  /\ departments = SeededDirectory
  /\ issues = <<>>
  /\ clock = 1
  /\ attendance = <<>>
  /\ users = <<>>
  /\ pool = NoPool
  /\ last = [op |-> "none"]
  /\ call = NoCall

\* POST /api/issues/create for the next issue
ReportProtected ==
  /\ Len(issues) < MaxIssues
  /\ HandleCreateIssue(OperationIntake(Len(issues) + 1))
  /\ call' = NoCall

\* a middleware answered the request itself
Refused(by, answer) ==
  /\ last' = [op |-> by, status |-> answer.status, error |-> answer.error, calls |-> <<>>]
  /\ UNCHANGED <<departments, issues, clock, attendance, users, pool>>

\* router.patch('/:issueId/status', authenticateToken,
\*              authorize('STAFF', 'ADMIN'), issueController.updateIssueStatus)
PatchStatus ==
  \E authHeader \in AuthorizationHeaders, issueId \in 1..(Len(issues) + 1),
     status \in OperationStatuses :
    \E authenticated \in {authenticateToken(authHeader)} :
      \E authorized \in {authorize(<<STAFF, ADMIN>>, authenticated.user)} :
        /\ issues # <<>>
        /\ call' = [fn |-> "PATCH /:issueId/status", done |-> TRUE,
                    authorization |-> authHeader, issueId |-> issueId,
                    status |-> status, issuesBefore |-> issues]
        /\ IF ~authenticated.next THEN Refused("authenticateToken", authenticated)
           ELSE IF ~authorized.next THEN Refused("authorize", authorized)
           ELSE HandleUpdateIssueStatus(issueId, status)

NextProtected == ReportProtected \/ PatchStatus

SpecProtected == InitProtected /\ [][NextProtected]_vars

(***************************************************************************)
(* Concurrent signups. Each call of register runs up to its next await in  *)
(* one step; call[c] holds the position and the local variables of the     *)
(* signup c, the Users table is shared.                                    *)
(***************************************************************************)
InitSignup ==
  /\ departments = <<>>
  /\ issues = <<>>
  /\ clock = 1
  /\ attendance = <<>>
  /\ last = [op |-> "none"]
  /\ users = <<>>
  /\ pool = NoPool
  /\ call \in [1..MaxSignups ->
                 {[pc |-> "signup", body |-> b, exists |-> FALSE, status |-> 0,
                   error |-> Ok, userId |-> 0] : b \in SignupBodies}]

\* signup and register up to the await of phoneNumberExists
EnterRegister(c) ==
  /\ call[c].pc = "signup"
  /\ \E invalid \in {registerInvalid(call[c].body)} :
       call' = [call EXCEPT
         ![c].pc = IF invalid # Ok THEN "done" ELSE "phoneNumberExists",
         ![c].error = invalid,
         ![c].status = IF invalid # Ok THEN signupErrorStatus(invalid) ELSE 0]
  /\ UNCHANGED <<departments, issues, clock, last, attendance, users, pool>>

\* register from the result of phoneNumberExists to the await of hashPassword
CheckPhoneNumber(c) ==
  /\ call[c].pc = "phoneNumberExists"
  /\ \E exists \in {phoneNumberExists(call[c].body.phoneNumber, users)} :
       call' = [call EXCEPT
         ![c].pc = IF exists THEN "done" ELSE "hashPassword",
         ![c].exists = exists,
         ![c].error = IF exists THEN MsgPhoneRegistered ELSE Ok,
         ![c].status = IF exists THEN signupErrorStatus(MsgPhoneRegistered) ELSE 0]
  /\ UNCHANGED <<departments, issues, clock, last, attendance, users, pool>>

\* register from the hash to the await of createUser
HashPassword(c) ==
  /\ call[c].pc = "hashPassword"
  /\ call' = [call EXCEPT ![c].pc = "createUser"]
  /\ UNCHANGED <<departments, issues, clock, last, attendance, users, pool>>

\* AuthRepository.createUser, the rest of register and the response of signup
CreateUser(c) ==
  /\ call[c].pc = "createUser"
  /\ \E r \in {insertUser(call[c].body, users, clock)} :
       /\ users' = IF r.inserted THEN Append(users, r.row) ELSE users
       /\ clock' = IF r.inserted THEN clock + 1 ELSE clock
       /\ call' = [call EXCEPT
            ![c].pc = "done",
            ![c].error = IF r.inserted THEN Ok ELSE createUserError(r.error),
            ![c].status = IF r.inserted THEN 201
                          ELSE signupErrorStatus(createUserError(r.error)),
            ![c].userId = IF r.inserted THEN r.row.UserId ELSE 0]
  /\ UNCHANGED <<departments, issues, last, attendance, pool>>

NextSignup ==
  \E c \in 1..MaxSignups :
    \/ EnterRegister(c)
    \/ CheckPhoneNumber(c)
    \/ HashPassword(c)
    \/ CreateUser(c)

SpecSignup == InitSignup /\ [][NextSignup]_vars

(***************************************************************************)
(* normalizeText on its own                                                *)
(***************************************************************************)
InitNormalize ==
  /\ departments = <<>>
  /\ issues = <<>>
  /\ clock = 1
  /\ attendance = <<>>
  /\ users = <<>>
  /\ pool = NoPool
  /\ last = [op |-> "none"]
  /\ call \in {[fn |-> "normalizeText", done |-> FALSE, text |-> x, result |-> Null,
                again |-> Null] : x \in NormalizeTexts}

\* normalizeText(text), and normalizeText of its result
Normalize ==
  /\ call.fn = "normalizeText"
  /\ ~call.done
  /\ \E r \in {normalizeText(call.text)} :
        call' = [call EXCEPT !.done = TRUE, !.result = r, !.again = normalizeText(r)]
  /\ UNCHANGED <<departments, issues, clock, last, attendance, users, pool>>

NextNormalize == Normalize

SpecNormalize == InitNormalize /\ [][NextNormalize]_vars

(***************************************************************************)
(* calculateDistance on its own                                            *)
(***************************************************************************)
InitDistance ==
  /\ departments = <<>>
  /\ issues = <<>>
  /\ clock = 1
  /\ attendance = <<>>
  /\ users = <<>>
  /\ pool = NoPool
  /\ last = [op |-> "none"]
  /\ call \in {[fn |-> "calculateDistance", done |-> FALSE, lat1 |-> la1, lon1 |-> lo1,
                lat2 |-> la2, lon2 |-> lo2, result |-> 0, reverse |-> 0] :
                 la1 \in DistanceLats, lo1 \in DistanceLons,
                 la2 \in DistanceLats, lo2 \in DistanceLons}

\* calculateDistance from the first point to the second, and back
Measure ==
  /\ call.fn = "calculateDistance"
  /\ ~call.done
  /\ call' = [call EXCEPT
                !.done = TRUE,
                !.result = calculateDistance(call.lat1, call.lon1, call.lat2, call.lon2),
                !.reverse = calculateDistance(call.lat2, call.lon2, call.lat1, call.lon1)]
  /\ UNCHANGED <<departments, issues, clock, last, attendance, users, pool>>

NextDistance == Measure

SpecDistance == InitDistance /\ [][NextDistance]_vars

(***************************************************************************)
(* The staff view of a record set on its own                               *)
(***************************************************************************)
InitTaskView ==
  /\ departments = <<>>
  /\ issues = <<>>
  /\ clock = 1
  /\ attendance = <<>>
  /\ users = <<>>
  /\ pool = NoPool
  /\ last = [op |-> "none"]
  /\ call \in {[fn |-> "getStaffTasks", done |-> FALSE,
                 rows |-> [k \in 1..Len(st) |->
                             [IssueId |-> k, IssueType |-> Null, Status |-> st[k],
                              Latitude |-> 0, Longitude |-> 0, CreatedAt |-> k,
                              Distance |-> NullDistance]],
                 tasks |-> <<>>] :
                  st \in UNION {[1..m -> RowStatuses] : m \in 1..MaxRows}}

\* IssueService.getStaffTasks on the record set of the repository
ViewTasks ==
  /\ call.fn = "getStaffTasks"
  /\ ~call.done
  /\ call' = [call EXCEPT !.done = TRUE, !.tasks = staffTasks(call.rows)]
  /\ UNCHANGED <<departments, issues, clock, last, attendance, users, pool>>

NextTaskView == ViewTasks

SpecTaskView == InitTaskView /\ [][NextTaskView]_vars

(***************************************************************************)
(* Properties of issue intake                                              *)
(***************************************************************************)
\* the submitted request has been answered
IntakeDone == call.fn = "createIssue" /\ call.done /\ last.op = "createIssue"

\* createIssue made the named call
Called(name) == InSeq(name, last.calls)

\* a description that is missing, empty or white space only
BlankText(t) == t = Null \/ \A i \in 1..Len(t) : t[i] \in {" ", "\t", "\n"}

\* a request body that meets the validation preconditions
ValidIntake(d) ==
  /\ ~BlankText(d.description)
  /\ Len(d.description) <= 500
  /\ d.latitude.t = "num"
  /\ d.longitude.t = "num"

FieldDescription == <<"D", "e", "s", "c", "r", "i", "p", "t", "i", "o", "n">>

FieldLatitude == <<"L", "a", "t", "i", "t", "u", "d", "e">>

FieldLongitude == <<"L", "o", "n", "g", "i", "t", "u", "d", "e">>

\* C1: every persisted issue has a departmentId that is not null; a valid
\* intake against a directory with at least one department is stored, and the
\* issue it stores carries the department id of the response.
C1_PersistedIssueHasDepartment ==
  /\ \A i \in 1..Len(issues) : issues[i].DepartmentId # NullId
  /\ (IntakeDone /\ ValidIntake(last.data) /\ departments # <<>>) => last.status = 201
  /\ (IntakeDone /\ last.status = 201) =>
        /\ last.issueId \in 1..Len(issues)
        /\ issues[last.issueId].DepartmentId = last.departmentId
        /\ last.departmentId # NullId

\* an issue without an explicit department and without a keyword was stored
C1_Witness ==
  /\ IntakeDone
  /\ last.status = 201
  /\ last.data.departmentId = NullId
  /\ last.allocationStrategy = StrategyNearest
  /\ issues[1].DepartmentId # NullId

\* C2: for every valid intake with a provided (non-null) explicit
\* departmentId the issue is stored with exactly that id, and neither the
\* classifier nor the department directory nor the distance is used.
C2_ExplicitIdUsedVerbatim ==
  (IntakeDone /\ ValidIntake(last.data) /\ last.data.departmentId # NullId) =>
     /\ last.status = 201
     /\ last.departmentId = last.data.departmentId
     /\ issues[last.issueId].DepartmentId = last.data.departmentId
     /\ ~Called("mapKeywordsToDepartmentId")
     /\ ~Called("departmentRepository.getAll")
     /\ ~Called("findNearestDepartment")
     /\ ~Called("calculateDistance")

\* the position of the first call of that name, 0 when there is none
FirstCall(name) ==
  IF Called(name) THEN CHOOSE i \in 1..Len(last.calls) :
                          last.calls[i] = name /\ \A j \in 1..(i - 1) : last.calls[j] # name
  ELSE 0

\* the least distance from the issue of data to a department of the directory
LeastDistance(data) ==
  CHOOSE m \in {calculateDistance(data.latitude.v, data.longitude.v,
                                  departments[i].Latitude, departments[i].Longitude) :
                  i \in 1..Len(departments)} :
     \A i \in 1..Len(departments) :
        m <= calculateDistance(data.latitude.v, data.longitude.v,
                               departments[i].Latitude, departments[i].Longitude)

\* C3: without an explicit department the classifier runs first and the
\* nearest-department selection runs only if the classifier resolved no id;
\* the step that resolves decides the department, and a nearest result
\* carries the nearest department and its distance.
C3_KeywordsThenNearest ==
  (IntakeDone /\ ValidIntake(last.data) /\ last.data.departmentId = NullId) =>
     LET resolved == mapKeywordsToDepartmentId(last.data.description,
                                               last.data.issueType, departments).id
     IN  /\ FirstCall("mapKeywordsToDepartmentId") = 2
         /\ Called("findNearestDepartment") <=> resolved = NullId
         /\ Called("findNearestDepartment") =>
              FirstCall("mapKeywordsToDepartmentId") < FirstCall("findNearestDepartment")
         /\ resolved # NullId =>
              /\ last.status = 201
              /\ last.departmentId = resolved
              /\ last.allocationStrategy = StrategyKeywords
              /\ last.nearestDepartment.departmentId = NullId
              /\ ~Called("calculateDistance")
         /\ (resolved = NullId /\ departments # <<>>) =>
              /\ last.status = 201
              /\ last.allocationStrategy = StrategyNearest
              /\ last.nearestDepartment.departmentId = last.departmentId
              /\ last.nearestDepartment.distance = toFixed2(LeastDistance(last.data))
              /\ \E i \in 1..Len(departments) :
                    /\ departments[i].DepartmentId = last.departmentId
                    /\ calculateDistance(last.data.latitude.v, last.data.longitude.v,
                                         departments[i].Latitude, departments[i].Longitude)
                         = LeastDistance(last.data)

\* the classifier named a department the directory does not have, and the
\* nearest department, some distance away, was allocated
C3_Witness ==
  /\ IntakeDone
  /\ last.data.departmentId = NullId
  /\ last.data.description = TxtPothole
  /\ Called("mapKeywordsToDepartmentId")
  /\ Called("findNearestDepartment")
  /\ last.allocationStrategy = StrategyNearest
  /\ last.nearestDepartment.distance > 0

\* C4: an intake whose description is blank or longer than 500 characters, or
\* whose latitude or longitude is not a finite number, fails with an error
\* that names an offending field, before any classification or lookup, and no
\* issue is stored, also with an explicit departmentId; a description of
\* exactly 500 characters is accepted.
C4_ValidationFirst ==
  IntakeDone =>
    LET d == last.data
        badDescription == BlankText(d.description) \/ Len(d.description) > 500
        badLatitude    == d.latitude.t # "num"
        badLongitude   == d.longitude.t # "num"
    IN  /\ (badDescription \/ badLatitude \/ badLongitude) =>
              /\ last.error # Ok
              /\ last.status # 201
              /\ \/ badDescription /\ includes(last.error, FieldDescription)
                 \/ badLatitude /\ includes(last.error, FieldLatitude)
                 \/ badLongitude /\ includes(last.error, FieldLongitude)
              /\ last.calls = <<"validate">>
              /\ issues = <<>>
        /\ (Len(d.description) = 500 /\ ~BlankText(d.description)
              /\ ~badLatitude /\ ~badLongitude) =>
              /\ last.error \notin {MsgDescriptionRequired, MsgDescriptionMax,
                                    MsgLatitudeRequired, MsgLongitudeRequired}
              /\ Len(last.calls) > 1

\* a description of 501 characters was rejected although a department was given
C4_Witness ==
  /\ IntakeDone
  /\ last.data.description = TxtTooLong
  /\ last.data.departmentId = 1
  /\ last.error = MsgDescriptionMax
  /\ issues = <<>>

\* C5: with an empty department directory and no explicit department every
\* valid intake fails with 'No departments available', stores no issue and is
\* answered with a server error, whether or not a keyword matched.
C5_NoDepartmentsAvailable ==
  (IntakeDone /\ ValidIntake(last.data) /\ last.data.departmentId = NullId
     /\ departments = <<>>) =>
     /\ last.error = MsgNoDepartments
     /\ issues = <<>>
     /\ last.status >= 500
     /\ last.status <= 599

\* the intake matched a keyword and still failed for want of departments
C5_Witness ==
  /\ IntakeDone
  /\ departments = <<>>
  /\ last.data.departmentId = NullId
  /\ last.data.description = TxtPothole
  /\ last.error = MsgNoDepartments
  /\ last.status = 500

(***************************************************************************)
(* Properties of the keyword classifier                                    *)
(***************************************************************************)
ClassifyDone == call.fn = "BestDept" /\ call.done

\* the normalized text of the classified call
ClassifiedText ==
  normalizeText(OrEmpty(call.issueType) \o <<" ">> \o OrEmpty(call.description))

\* the scores of the rules of the rule table on the classified text, in
\* table order
RuleScores ==
  {[g \in 1..Len(getDepartmentKeywords) |->
      GroupScore(getDepartmentKeywords[g], ClassifiedText)]}

\* the indexes of the rules with the highest score
TopRules(scores) ==
  {g \in DOMAIN scores : \A h \in DOMAIN scores : scores[h] <= scores[g]}

\* C6: the classifier returns no match when the normalized text is empty or
\* every rule scores 0; otherwise it returns the department name of the first
\* rule, in the order Sanitation, Water, Electricity, PWD, among those with
\* the highest score.
C6_FirstRuleOfHighestScore ==
  ClassifyDone =>
    /\ [g \in 1..Len(getDepartmentKeywords) |-> getDepartmentKeywords[g].deptName]
         = << <<"S", "a", "n", "i", "t", "a", "t", "i", "o", "n">>, <<"W", "a", "t", "e", "r">>,
              <<"E", "l", "e", "c", "t", "r", "i", "c", "i", "t", "y">>, <<"P", "W", "D">> >>
    /\ \A scores \in RuleScores :
         IF ClassifiedText = <<>> \/ \A g \in DOMAIN scores : scores[g] = 0
           THEN call.result = Null
           ELSE \E g \in TopRules(scores) :
                   /\ \A h \in TopRules(scores) : g <= h
                   /\ call.result = getDepartmentKeywords[g].deptName

\* two rules share the highest score and the earlier one was returned
C6_Witness ==
  /\ ClassifyDone
  /\ \E scores \in RuleScores :
        \E g, h \in TopRules(scores) :
           /\ scores[g] > 0
           /\ g < h
           /\ call.result = getDepartmentKeywords[g].deptName

(***************************************************************************)
(* Properties of the nearest-department selection                          *)
(***************************************************************************)
NearestDone == call.fn = "findNearestDepartment" /\ call.done

\* the distance from the issue point of the call to a department
DistanceTo(dp) ==
  calculateDistance(call.latitude, call.longitude, dp.Latitude, dp.Longitude)

\* C7: on a non-empty department sequence the selection returns a department
\* at the least distance from the issue point, and among several at that
\* distance the one that comes first in the sequence.
C7_NearestFirstOfMinimal ==
  (NearestDone /\ departments # <<>>) =>
    LET input == getAll(departments)
    IN  /\ call.error = Ok
        /\ \E i \in 1..Len(input) :
              /\ call.dept.DepartmentId = input[i].DepartmentId
              /\ call.dept.DepartmentName = input[i].DepartmentName
              /\ call.dept.distance = DistanceTo(input[i])
              /\ \A j \in 1..Len(input) : DistanceTo(input[i]) <= DistanceTo(input[j])
              /\ \A j \in 1..(i - 1) : DistanceTo(input[j]) > DistanceTo(input[i])

\* two departments at the same least distance, a nearer-listed farther one
\* before them, and the first of the two returned
C7_Witness ==
  /\ NearestDone
  /\ Len(departments) >= 3
  /\ LET input == getAll(departments)
     IN  \E i, j \in 1..Len(input) :
            /\ 1 < i
            /\ i < j
            /\ DistanceTo(input[i]) = DistanceTo(input[j])
            /\ DistanceTo(input[1]) > DistanceTo(input[i])
            /\ call.dept.DepartmentId = input[i].DepartmentId

(***************************************************************************)
(* Properties of the status update                                         *)
(***************************************************************************)
FourStatuses == {REPORTED, ASSIGNED, IN_PROGRESS, RESOLVED}

UpdateAnswered == last.op = "updateIssueStatus"

\* C8: updateIssueStatus accepts exactly REPORTED, ASSIGNED, IN_PROGRESS and
\* RESOLVED, case-sensitively; any other string is rejected with 'Invalid
\* status' without a call of the persistence layer, the request is answered
\* 400 and the stored status of the issue is unchanged.
C8_OnlyFourStatuses ==
  /\ \A id \in 1..Len(issues), status \in StatusInputs :
        LET r == updateIssueStatus(id, status, issues)
        IN  IF status \in FourStatuses
              THEN r.error = Ok /\ r.calls = <<"issueRepository.updateIssueStatus">>
              ELSE r.error = MsgInvalidStatus /\ r.calls = <<>> /\ r.table = issues
  /\ (UpdateAnswered /\ last.target \notin FourStatuses) =>
        /\ last.status = 400
        /\ ~InSeq("issueRepository.updateIssueStatus", last.calls)
        /\ InSeq("issueService.updateIssueStatus", last.calls) => last.error = MsgInvalidStatus
        /\ last.issueId <= Len(issues) => issues[last.issueId].Status = last.from

\* "DONE" was refused for an issue that is in progress
C8_Witness ==
  /\ UpdateAnswered
  /\ last.target = TxtDone
  /\ last.error = MsgInvalidStatus
  /\ last.status = 400
  /\ last.issueId <= Len(issues)
  /\ issues[last.issueId].Status = IN_PROGRESS

\* C9: from every current status of an existing issue an update to any of the
\* four statuses succeeds and becomes the status of the issue; RESOLVED is
\* not terminal.
C9_AnyTransitionAllowed ==
  (UpdateAnswered /\ last.target \in FourStatuses /\ last.issueId <= Len(issues)) =>
     /\ last.status = 200
     /\ last.error = Ok
     /\ issues[last.issueId].Status = last.target

\* a resolved issue was set back to REPORTED
C9_Witness ==
  /\ UpdateAnswered
  /\ last.from = RESOLVED
  /\ last.target = REPORTED
  /\ last.status = 200
  /\ issues[last.issueId].Status = REPORTED

(***************************************************************************)
(* Properties of the staff task list                                       *)
(***************************************************************************)
TasksAnswered == last.op = "getStaffTasks"

\* the status priority of the task order
TaskPriority(status) ==
  CASE status = ASSIGNED    -> 1
    [] status = IN_PROGRESS -> 2
    [] status = REPORTED    -> 3
    [] status = RESOLVED    -> 4

\* the issue ids of a record set, in order
IdsOf(rows) == [k \in 1..Len(rows) |-> rows[k].IssueId]

\* the orders the task list of a department may come in for a staff position
TaskOrders(staffDepartmentId, position) ==
  { IdsOf(rows) :
      rows \in repoGetStaffTasks(issues, staffDepartmentId,
                                 IF position[1] = Undefined THEN JsNull ELSE position[1],
                                 IF position[2] = Undefined THEN JsNull ELSE position[2]) }

\* C10: getStaffTasks returns exactly the issues of the given department, each
\* once, ordered by status priority ASSIGNED, IN_PROGRESS, REPORTED, RESOLVED
\* and within a status by createdAt descending; the order does not depend on
\* the staff coordinates.
C10_TaskOrder ==
  /\ TasksAnswered =>
       LET ids == IdsOf(last.rows)
       IN  /\ {ids[k] : k \in 1..Len(ids)}
                = {issues[i].IssueId : i \in {i \in 1..Len(issues) :
                                                issues[i].DepartmentId = last.staffDepartmentId}}
           /\ \A j, k \in 1..Len(ids) : j # k => ids[j] # ids[k]
           /\ \A k \in 1..(Len(ids) - 1) :
                 LET a == issues[ids[k]]
                     b == issues[ids[k + 1]]
                 IN  \/ TaskPriority(a.Status) < TaskPriority(b.Status)
                     \/ /\ TaskPriority(a.Status) = TaskPriority(b.Status)
                        /\ a.CreatedAt >= b.CreatedAt
           /\ [k \in 1..Len(last.tasks) |-> last.tasks[k].id] = ids
  /\ \A dp \in StaffDepartments, position \in StaffPositions :
        TaskOrders(dp, position) = TaskOrders(dp, <<Undefined, Undefined>>)

\* with staff coordinates supplied, a resolved issue that is the nearer and
\* the newer one is listed after an assigned one
C10_Witness ==
  /\ TasksAnswered
  /\ last.staffLat # JsNull
  /\ last.staffLon # JsNull
  /\ Len(last.rows) = 2
  /\ last.rows[1].Status = ASSIGNED
  /\ last.rows[2].Status = RESOLVED
  /\ last.rows[2].Distance < last.rows[1].Distance
  /\ last.rows[2].CreatedAt > last.rows[1].CreatedAt

(***************************************************************************)
(* Properties of attendance                                                *)
(***************************************************************************)
AttendanceAnswered == last.op = "addAttendance"

\* the request named coordinates that are both finite numbers
FiniteCoordinates(latitude, longitude) == latitude.t = "num" /\ longitude.t = "num"

\* C11: every successful attendance recording returns and stores as
\* distanceMeters 1000 times the distance in kilometres between the staff
\* position and the issue location, 0 when the two coincide. (The kilometres
\* are a count m of thousandths, so 1000 times them is the number m.)
C11_RecordedDistanceInMeters ==
  (AttendanceAnswered /\ last.status = 201) =>
     LET issue  == issues[last.issueId]
         meters == Dec(calculateDistance(last.latitude.v, last.longitude.v,
                                         issue.Latitude, issue.Longitude), 0)
     IN  /\ last.attendance[1].distanceMeters = meters
         /\ attendance[Len(attendance)].DistanceFromIssue = meters

\* C12: recording attendance fails with 'Invalid attendance payload' when a
\* staff coordinate is missing or not finite and with 'Issue not found' when
\* the issue does not exist; no attendance row is added and the request is
\* answered with a client error.
C12_AttendanceRejected ==
  /\ \A id \in 1..(Len(issues) + 1), latitude \in StaffLatitudes,
        longitude \in StaffLongitudes :
        \A r \in {addIssueAttendance(id, StaffUserId, latitude, longitude,
                                     issues, attendance, clock)} :
           /\ ~FiniteCoordinates(latitude, longitude) =>
                 /\ r.error = MsgInvalidAttendance
                 /\ ~r.inserted
                 /\ ~InSeq("issueRepository.addIssueAttendance", r.calls)
                 /\ addAttendanceErrorStatus(r.error) \in 400..499
           /\ (FiniteCoordinates(latitude, longitude) /\ id > Len(issues)) =>
                 /\ r.error = MsgIssueNotFound
                 /\ ~r.inserted
                 /\ ~InSeq("issueRepository.addIssueAttendance", r.calls)
                 /\ addAttendanceErrorStatus(r.error) \in 400..499
  /\ (/\ AttendanceAnswered
      /\ \/ ~FiniteCoordinates(last.latitude, last.longitude)
         \/ last.issueId > Len(issues)) =>
        /\ last.status \in 400..499
        /\ last.error # Ok
        /\ last.attendance = <<>>
        /\ ~InSeq("issueRepository.addIssueAttendance", last.calls)
        /\ Len(attendance) = last.rowsBefore

\* with one attendance already recorded, a check-in at an issue that does not
\* exist was refused with 'Issue not found'
C12_Witness ==
  /\ AttendanceAnswered
  /\ last.issueId > Len(issues)
  /\ FiniteCoordinates(last.latitude, last.longitude)
  /\ last.error = MsgIssueNotFound
  /\ last.status = 400
  /\ Len(attendance) = 1

(***************************************************************************)
(* Properties of normalizeText                                             *)
(***************************************************************************)
NormalizeDone == call.fn = "normalizeText" /\ call.done

\* C13: normalizeText is idempotent: for every text, null and the empty
\* string included, normalizing the result again gives the result.
C13_NormalizeIdempotent ==
  NormalizeDone => call.again = call.result

\* a text with an upper-case letter, punctuation and white space was changed
\* by the first normalization and left alone by the second
C13_Witness ==
  /\ NormalizeDone
  /\ call.text # Null
  /\ InSeq("B", call.text)
  /\ InSeq("-", call.text)
  /\ InSeq("\t", call.text)
  /\ call.result # call.text
  /\ call.result # <<>>
  /\ call.again = call.result

\* C14: for every text the result of normalizeText has only the characters
\* a-z, 0-9 and the space, no space at either end and no two spaces in a
\* row, and it is the empty string for null and for the empty string.
C14_NormalizedForm ==
  NormalizeDone =>
       /\ \A i \in 1..Len(call.result) :
             call.result[i] \in LowerSet \cup DigitSet \cup {" "}
       /\ call.result # <<>> => call.result[1] # " " /\ call.result[Len(call.result)] # " "
       /\ \A i \in 1..(Len(call.result) - 1) :
             ~(call.result[i] = " " /\ call.result[i + 1] = " ")
       /\ (call.text = Null \/ call.text = <<>>) => call.result = <<>>

\* an upper-case letter and a digit around a tab and a hyphen came out as two
\* words with one space between them
C14_Witness ==
  /\ NormalizeDone
  /\ call.text = <<"B", "\t", "-", "7">>
  /\ call.result = <<"b", " ", "7">>

(***************************************************************************)
(* Properties of calculateDistance                                         *)
(***************************************************************************)
DistanceDone == call.fn = "calculateDistance" /\ call.done

\* C15: the distance from a point to itself is 0, for every coordinate.
C15_DistanceToSelfIsZero ==
  (DistanceDone /\ call.lat1 = call.lat2 /\ call.lon1 = call.lon2) =>
     call.result = 0 /\ call.reverse = 0

\* the distance from a point away from the equator and the prime meridian to
\* itself was taken
C15_Witness ==
  /\ DistanceDone
  /\ call.lat1 = 60
  /\ call.lat2 = 60
  /\ call.lon1 = 180
  /\ call.lon2 = 180
  /\ call.result = 0

\* C16: the distance is symmetric: from a to b it is what it is from b to a,
\* for all coordinate pairs.
C16_DistanceSymmetric ==
  DistanceDone => call.result = call.reverse

\* two points of different latitudes and longitudes are as far one way as
\* the other
C16_Witness ==
  /\ DistanceDone
  /\ call.lat1 = 60
  /\ call.lat2 = 0
  /\ call.lon1 # call.lon2
  /\ call.result > 0
  /\ call.result = call.reverse

(***************************************************************************)
(* Properties of the response of issue intake                              *)
(***************************************************************************)
\* the strategy value for an explicit department
StrategyExplicit == <<"e", "x", "p", "l", "i", "c", "i", "t">>

\* C17: every successful allocation reports one of the three strategies, the
\* one that produced the department: explicit when the explicit id was used,
\* keywords when the classifier resolved it, nearest when the nearest
\* department was taken.
C17_StrategyReported ==
  (IntakeDone /\ last.status = 201) =>
     /\ last.allocationStrategy \in {StrategyExplicit, StrategyKeywords, StrategyNearest}
     /\ ~Called("mapKeywordsToDepartmentId") => last.allocationStrategy = StrategyExplicit
     /\ (Called("mapKeywordsToDepartmentId") /\ ~Called("findNearestDepartment")) =>
           last.allocationStrategy = StrategyKeywords
     /\ Called("findNearestDepartment") => last.allocationStrategy = StrategyNearest

\* C18: every validation failure of issue intake (a blank description, one
\* longer than 500 characters, a latitude or longitude that is not a finite
\* number) is answered with a client error status, 400 to 499.
C18_ValidationIsClientError ==
  (IntakeDone /\ ~ValidIntake(last.data)) =>
     /\ last.status >= 400
     /\ last.status <= 499

(***************************************************************************)
(* Properties of keyword scoring and matching                              *)
(***************************************************************************)
\* the words of a text: its maximal runs of characters other than the space
RECURSIVE WordsOf(_)
WordsOf(t) ==
  IF t = <<>> THEN <<>>
  ELSE IF t[1] = " " THEN WordsOf(Tail(t))
  ELSE LET stop == CHOOSE n \in 2..(Len(t) + 1) :
                      /\ n = Len(t) + 1 \/ t[n] = " "
                      /\ \A m \in 2..(n - 1) : t[m] # " "
       IN  <<SubSeq(t, 1, stop - 1)>> \o WordsOf(SubSeq(t, stop, Len(t)))

\* the words ks come one after the other among the words ws
OccursAsWords(ks, ws) ==
  \E i \in 1..(Len(ws) - Len(ks) + 1) : SubSeq(ws, i, i + Len(ks) - 1) = ks

\* the keywords of rule g whose words occur in the words ws and number n
MatchingKeywords(g, ws, n) ==
  {k \in 1..Len(getDepartmentKeywords[g].keywords) :
     /\ Len(WordsOf(getDepartmentKeywords[g].keywords[k])) = n
     /\ OccursAsWords(WordsOf(getDepartmentKeywords[g].keywords[k]), ws)}

\* C19: the score of a rule is the sum of the word counts of its keywords
\* that match the normalized text: 1 for a matching single word, 2 for a
\* matching phrase of two words, each keyword once however often it occurs.
C19_ScoreIsSumOfWordCounts ==
  ClassifyDone =>
    \A ws \in {WordsOf(ClassifiedText)} :
      \A g \in 1..Len(getDepartmentKeywords) :
         /\ \A k \in 1..Len(getDepartmentKeywords[g].keywords) :
               Len(WordsOf(getDepartmentKeywords[g].keywords[k])) \in {1, 2}
         /\ GroupScore(getDepartmentKeywords[g], ClassifiedText)
              = Cardinality(MatchingKeywords(g, ws, 1))
                  + 2 * Cardinality(MatchingKeywords(g, ws, 2))

\* "water no water" scored 3 for the Water rule: 1 for "water", found twice,
\* and 2 for "no water"
C19_Witness ==
  /\ ClassifyDone
  /\ call.issueType = Null
  /\ call.description = WordWater \o <<" ">> \o WordNo \o <<" ">> \o WordWater
  /\ GroupScore(getDepartmentKeywords[2], ClassifiedText) = 3
  /\ call.result = getDepartmentKeywords[2].deptName

\* C20: a keyword matches the normalized text iff its words occur as a run
\* of complete words of the text; a keyword that is only part of a longer
\* word does not match.
C20_WholeWordMatch ==
  ClassifyDone =>
    \A ws \in {WordsOf(ClassifiedText)} :
      \A g \in 1..Len(getDepartmentKeywords) :
         \A k \in 1..Len(getDepartmentKeywords[g].keywords) :
            regexTest(normalizeText(getDepartmentKeywords[g].keywords[k]), ClassifiedText)
              <=> OccursAsWords(WordsOf(getDepartmentKeywords[g].keywords[k]), ws)

\* in "tape water roads" neither "tap" nor "road" matched, "water" did
C20_Witness ==
  /\ ClassifyDone
  /\ call.issueType = Null
  /\ call.description = WordTape \o <<" ">> \o WordWater \o <<" ">> \o WordRoads
  /\ includes(ClassifiedText, <<"t", "a", "p">>)
  /\ includes(ClassifiedText, <<"r", "o", "a", "d">>)
  /\ ~regexTest(<<"t", "a", "p">>, ClassifiedText)
  /\ ~regexTest(<<"r", "o", "a", "d">>, ClassifiedText)
  /\ regexTest(WordWater, ClassifiedText)
  /\ call.result = getDepartmentKeywords[2].deptName

(***************************************************************************)
(* Properties of the resolution of the winning department name             *)
(***************************************************************************)
\* the positions, in the directory dir, of the departments named name up to
\* case, punctuation and white space
NamedAlike(dir, name) ==
  {i \in 1..Len(dir) : normalizeText(dir[i].DepartmentName) = normalizeText(name)}

\* the least position of a non-empty set of positions
FirstOf(positions) == CHOOSE i \in positions : \A j \in positions : i <= j

\* C21: the winning department name is resolved to an id by comparing
\* normalized names against the department directory, in the order the
\* repository returns it: of several matching departments the first is
\* allocated, and with no matching department the intake goes on to the
\* nearest-department strategy.
C21_WinningNameResolved ==
  (IntakeDone /\ ValidIntake(last.data) /\ last.data.departmentId = NullId) =>
     \A best \in {BestDept(last.data.description, last.data.issueType)} :
        \A dir \in {getAll(departments)} :
           /\ (best # Null /\ NamedAlike(dir, best) # {}) =>
                 /\ last.status = 201
                 /\ last.departmentId = dir[FirstOf(NamedAlike(dir, best))].DepartmentId
                 /\ last.allocationStrategy = StrategyKeywords
                 /\ ~Called("findNearestDepartment")
           /\ (best # Null /\ NamedAlike(dir, best) = {}) =>
                 /\ Called("findNearestDepartment")
                 /\ dir # <<>> => /\ last.status = 201
                                  /\ last.allocationStrategy = StrategyNearest
                                  /\ last.departmentId = last.nearestDepartment.departmentId

\* of two departments named "pwd!" and " PWD" the second of the table, which
\* the repository returns first, was allocated to a pothole
C21_Witness ==
  /\ IntakeDone
  /\ last.data.departmentId = NullId
  /\ last.data.description = TxtPothole
  /\ Len(departments) = 2
  /\ departments[1].DepartmentName = NamePwdBang
  /\ departments[2].DepartmentName = NameSpacePwd
  /\ Cardinality(NamedAlike(departments, NamePWD)) = 2
  /\ last.status = 201
  /\ last.departmentId = departments[2].DepartmentId
  /\ last.allocationStrategy = StrategyKeywords

(***************************************************************************)
(* Properties of the staff view of a task                                  *)
(***************************************************************************)
\* the issue a row of the task list was read from
IssueOfRow(row) == issues[row.IssueId]

\* C22: with both staff coordinates supplied every returned task carries the
\* distance computed between the staff position and its issue, also when the
\* two coincide and the distance is 0; with a coordinate missing no task
\* carries a distance ("N/A"). (Distances of tasks are tenths of a kilometre.)
C22_DistanceAttached ==
  TasksAnswered =>
    \A k \in 1..Len(last.tasks) :
       IF last.staffLat # JsNull /\ last.staffLon # JsNull
         THEN /\ last.tasks[k].distance # NullDistance
              /\ last.tasks[k].distance
                   = (calculateDistance(last.staffLat.v, last.staffLon.v,
                                        IssueOfRow(last.rows[k]).Latitude,
                                        IssueOfRow(last.rows[k]).Longitude) + 50) \div 100
         ELSE last.tasks[k].distance = NullDistance

\* the staff view has answered for the record set
TaskViewDone == call.fn = "getStaffTasks" /\ call.done

\* the four labels of the staff view
FourLabels == {LabelValidation, LabelAssigned, LabelInProgress, LabelCompleted}

\* the status is spelled like one of the four statuses, in some letter case
SpelledLikeStatus(status) ==
  /\ status # Null
  /\ \E known \in {REPORTED, ASSIGNED, IN_PROGRESS, RESOLVED} :
        /\ Len(status) = Len(known)
        /\ \A i \in 1..Len(known) :
              status[i] = known[i] \/ \E j \in 1..26 : /\ known[i] = UpperChars[j]
                                                      /\ status[i] = LowerChars[j]

C24_AttendanceAppendOnly ==
  [][ /\ Len(attendance') \in {Len(attendance), Len(attendance) + 1}
      /\ SubSeq(attendance', 1, Len(attendance)) = attendance
      /\ (last'.op = "addAttendance" /\ last'.status = 201) =>
            /\ Len(attendance') = Len(attendance) + 1
            /\ attendanceView(attendance'[Len(attendance')]) = last'.attendance[1]
            /\ \A i \in 1..Len(attendance) :
                  attendance[i].AttendanceId # attendance'[Len(attendance')].AttendanceId
      /\ Len(attendance') = Len(attendance) + 1 =>
            (last'.op = "addAttendance" /\ last'.status = 201)
    ]_vars

\* the same staff checked in a second time at the same issue, and both
\* records are in the table
C24_Witness ==
  /\ AttendanceAnswered
  /\ last.status = 201
  /\ Len(attendance) = 2
  /\ attendance[1].IssueId = attendance[2].IssueId
  /\ attendance[1].StaffId = attendance[2].StaffId
  /\ attendance[1].AttendanceTime < attendance[2].AttendanceTime
  /\ last.attendance[1].attendanceId = attendance[2].AttendanceId

(***************************************************************************)
(* Properties of concurrent createIssue calls                              *)
(***************************************************************************)
\* what the call c would return and store if it ran alone on empty tables
Alone(c) == createIssue(call[c].data, departments, <<>>, 1)

PatchAnswered == call.fn = "PATCH /:issueId/status"

\* the header carries a token
CarriesToken(authHeader) == Len(authHeader) >= 2

\* the header carries a token of the server that has not expired
CarriesValidToken(authHeader) ==
  /\ CarriesToken(authHeader)
  /\ authHeader[2].signed
  /\ ~authHeader[2].expired

\* C26: the status of an issue is changed only by a request with a valid
\* token of role STAFF or ADMIN. A request without a token is answered 401,
\* one with an invalid or expired token 403, one with a valid token of role
\* CITIZEN 403; in these cases the handler is not run and no issue changes.
C26_StatusUpdateProtected ==
  PatchAnswered =>
    /\ ~CarriesToken(call.authorization) => last.status = 401
    /\ (CarriesToken(call.authorization) /\ ~CarriesValidToken(call.authorization)) =>
          last.status = 403
    /\ (CarriesValidToken(call.authorization) /\ call.authorization[2].role = CITIZEN) =>
          last.status = 403
    /\ ~(/\ CarriesValidToken(call.authorization)
         /\ call.authorization[2].role \in {STAFF, ADMIN}) =>
          /\ last.op # "updateIssueStatus"
          /\ last.calls = <<>>
          /\ last.status \in {401, 403}
          /\ issues = call.issuesBefore
    /\ issues # call.issuesBefore =>
          /\ CarriesValidToken(call.authorization)
          /\ call.authorization[2].role \in {STAFF, ADMIN}
          /\ last.op = "updateIssueStatus"

\* a citizen with a valid token asked for RESOLVED on a reported issue, was
\* answered 403, and the issue is still reported
C26_Witness ==
  /\ PatchAnswered
  /\ CarriesValidToken(call.authorization)
  /\ call.authorization[2].role = CITIZEN
  /\ call.issueId = 1
  /\ call.status = RESOLVED
  /\ last.status = 403
  /\ last.op = "authorize"
  /\ issues[1].Status = REPORTED

(***************************************************************************)
(* Properties of concurrent signups                                        *)
(***************************************************************************)
\* the signups that have been answered for the phone number ph
SignupsDone(ph) ==
  {c \in 1..MaxSignups : call[c].pc = "done" /\ call[c].body.phoneNumber = ph}

\* C27: phone numbers are unique across users. However the steps of
\* concurrent signups interleave, no two users have the same phone number,
\* at most one signup for a phone number creates a user, and every other
\* signup for it is answered 409 'Phone number already registered' and
\* creates no user.
C27_PhoneNumbersUnique ==
  /\ \A i, j \in 1..Len(users) :
        i # j => users[i].phone_number # users[j].phone_number
  /\ Len(users) = Cardinality({c \in 1..MaxSignups : call[c].userId # 0})
  /\ \A ph \in {PhoneOne, PhoneTwo} :
        /\ Cardinality({c \in SignupsDone(ph) : call[c].status = 201}) <= 1
        /\ SignupsDone(ph) # {} =>
              Cardinality({c \in SignupsDone(ph) : call[c].status = 201}) = 1
        /\ \A c \in SignupsDone(ph) :
              \/ /\ call[c].status = 201
                 /\ call[c].userId \in 1..Len(users)
                 /\ users[call[c].userId].phone_number = ph
              \/ /\ call[c].status = 409
                 /\ call[c].error = MsgPhoneRegistered
                 /\ call[c].userId = 0
                 /\ \E d \in 1..MaxSignups :
                       d # c /\ call[d].userId # 0 /\ call[d].body.phoneNumber = ph

\* two signups for the same phone number both found it free; the first to
\* insert created the user and the other was answered 409
C27_Witness ==
  /\ call[1].pc = "done"
  /\ call[2].pc = "done"
  /\ call[1].body.phoneNumber = call[2].body.phoneNumber
  /\ ~call[1].exists
  /\ ~call[2].exists
  /\ call[2].status = 201
  /\ call[1].status = 409
  /\ call[1].error = MsgPhoneRegistered
  /\ Len(users) = 1

(***************************************************************************)
(* The db module: concurrent getPool calls. call[c] holds the position of  *)
(* caller c and the pool it received; pool is the module variable and      *)
(* last.connects counts the invocations of sql.connect.                    *)
(***************************************************************************)
\* at most this many getPool calls are made
MaxCallers == 3

\* what a sql.connect invoked as the n-th one can resolve to: a connection
\* pool of its own, or one an earlier invocation already produced
Connections(n) == {[connection |-> k] : k \in 1..n}

InitPool ==
  /\ departments = <<>>
  /\ issues = <<>>
  /\ clock = 1
  /\ attendance = <<>>
  /\ users = <<>>
  /\ pool = NoPool
  /\ last = [op |-> "getPool", connects |-> 0]
  /\ call = [c \in 1..MaxCallers |->
              [pc |-> "getPool", nth |-> 0, received |-> NoPool]]

\* getPool up to the await of sql.connect, or to its return when the pool is
\* already there
EnterGetPool(c) ==
  /\ call[c].pc = "getPool"
  /\ IF pool = NoPool
       THEN /\ last' = [last EXCEPT !.connects = last.connects + 1]
            /\ call' = [call EXCEPT ![c].pc = "sql.connect",
                                    ![c].nth = last.connects + 1]
       ELSE /\ last' = last
            /\ call' = [call EXCEPT ![c].pc = "returned", ![c].received = pool]
  /\ UNCHANGED <<departments, issues, clock, attendance, users, pool>>

\* sql.connect resolves: the pool is assigned and returned
ConnectResolves(c) ==
  /\ call[c].pc = "sql.connect"
  /\ \E connection \in Connections(call[c].nth) :
       /\ pool' = connection
       /\ call' = [call EXCEPT ![c].pc = "returned", ![c].received = connection]
  /\ UNCHANGED <<departments, issues, clock, attendance, users, last>>

\* sql.connect rejects: getPool throws and the pool stays unassigned
ConnectRejects(c) ==
  /\ call[c].pc = "sql.connect"
  /\ call' = [call EXCEPT ![c].pc = "thrown"]
  /\ UNCHANGED <<departments, issues, clock, attendance, users, pool, last>>

NextPool ==
  \E c \in 1..MaxCallers :
    \/ EnterGetPool(c)
    \/ ConnectResolves(c)
    \/ ConnectRejects(c)

SpecPool == InitPool /\ [][NextPool]_vars

(***************************************************************************)
(* Properties of the stored status                                         *)
(***************************************************************************)
\* C28: in every reachable state the status of every stored issue is one of
\* REPORTED, ASSIGNED, IN_PROGRESS and RESOLVED; an issue that was just
\* created has the status REPORTED, and after an update, accepted or
\* rejected, every stored status is still one of the four.
C28_StatusIsOneOfFour ==
  /\ \A i \in 1..Len(issues) :
        \E k \in 1..Len(allowed) : issues[i].Status = allowed[k]
  /\ (last.op = "createIssue" /\ last.status = 201) =>
        /\ last.issueId = Len(issues)
        /\ issues[last.issueId].Status = REPORTED
  /\ (UpdateAnswered /\ last.status # 200 /\ last.issueId <= Len(issues)) =>
        issues[last.issueId].Status = last.from

\* after an issue was resolved, a second issue was created as REPORTED and
\* the lower-case "resolved" was then refused for it
C28_Witness ==
  /\ UpdateAnswered
  /\ last.target = TxtResolvedLower
  /\ last.status = 400
  /\ last.issueId = 2
  /\ Len(issues) = 2
  /\ issues[1].Status = RESOLVED
  /\ issues[2].Status = REPORTED

(***************************************************************************)
(* Frame of the operations on issues                                       *)
(***************************************************************************)
\* the fields of an issue that no operation writes after the INSERT
CreatedOnceFields ==
  {"IssueId", "CitizenId", "IssueType", "Description", "Latitude",
   "Longitude", "Address", "CreatedAt"}

\* C29: after an issue is created no operation changes any of its fields
\* other than the status and the department. An accepted updateIssueStatus
\* changes only the status of the issue it names and leaves every other
\* issue as it was; recording attendance and listing the staff tasks change
\* no issue at all.
C29_IssueFrame ==
  [][ /\ Len(issues') >= Len(issues)
      /\ \A i \in 1..Len(issues) : \A f \in CreatedOnceFields :
            issues'[i][f] = issues[i][f]
      /\ (last'.op = "updateIssueStatus" /\ last'.status = 200) =>
            /\ Len(issues') = Len(issues)
            /\ \A i \in 1..Len(issues) :
                  issues'[i] = IF issues[i].IssueId = last'.issueId
                                 THEN [issues[i] EXCEPT !.Status = last'.target]
                                 ELSE issues[i]
      /\ last'.op \in {"addAttendance", "getStaffTasks"} => issues' = issues
    ]_vars

\* the first of two issues was resolved by an accepted update while the
\* second is still as it was created, and an attendance is on record
C29_Witness ==
  /\ UpdateAnswered
  /\ last.status = 200
  /\ last.issueId = 1
  /\ last.from = IN_PROGRESS
  /\ last.target = RESOLVED
  /\ Len(issues) = 2
  /\ issues[1].Status = RESOLVED
  /\ issues[2].Status = REPORTED
  /\ issues[1].Description = OperationIntake(1).description
  /\ issues[2].Latitude = OperationIntake(2).latitude.v
  /\ attendance # <<>>

(***************************************************************************)
(* Properties of getPool                                                   *)
(***************************************************************************)
\* C30: getPool creates the connection pool at most once: under every
\* interleaving of concurrent getPool calls sql.connect is invoked at most
\* once and every caller that has returned received the same pool.
C30_PoolCreatedOnce ==
  /\ last.connects <= 1
  /\ \A c, d \in 1..MaxCallers :
        (call[c].pc = "returned" /\ call[d].pc = "returned") =>
           call[c].received = call[d].received

====
